---- MODULE Spec2Model ----
(***************************************************************************)
(* Model of the team turn-taking orchestrator (sweagent/agent/             *)
(* team_agents.py) and of the per-instance batch driver (sweagent/run/     *)
(* run_batch_team.py, sweagent/environment/apptainer_support/apptainer.py).*)
(*                                                                         *)
(* Three specifications share the variables:                               *)
(*   Spec       a caller that owns a Team and calls Team.step() directly,  *)
(*              any number of times (up to MaxSteps); the agents share     *)
(*              full context and the steps differ in what the scheduler    *)
(*              reads of them;                                             *)
(*   SpecRun    RunBatchTeam._run_instance: sandbox start, Team.run and    *)
(*              the guaranteed-release block;                              *)
(*   SpecShare  a caller of Team.step() (up to MaxShareSteps calls) on a   *)
(*              team with any sharing flags, the steps differing in all    *)
(*              that handoff detection and propagation read of them.       *)
(*                                                                         *)
(* Four more specifications model the host of the team:                    *)
(*   SpecDeploy a caller of ApptainerDeployment.start() and stop() in any   *)
(*              order (up to MaxDeployCalls calls), with the start-up       *)
(*              timeout and the signal escalation of stop();                *)
(*   SpecBatch  RunBatchTeam.__init__ loading the agent configuration files *)
(*              and workers running instances on the loaded configurations; *)
(*   SpecEval   SweBenchEvaluate.move_reports_from_log_dir summarising the  *)
(*              evaluator's reports;                                        *)
(*   SpecHook   workers running SweBenchEvaluate.on_instance_completed      *)
(*              concurrently, each step of it failing or not, and on_end    *)
(*              (sweagent/run/hooks/swe_bench_evaluate.py).                 *)
(***************************************************************************)
EXTENDS Integers, Sequences, FiniteSets, TLC

\* ------------------------------------------------------------------ bounds

\* The team, in rotation order (Team.agents).
AgentNames == <<"A", "B", "C">>

\* Values a max_consecutive_turns setting is drawn from.
TurnLimits == {2, 3}

\* Values the agents' configured max_requeries is drawn from.
RequeryLimits == {0, 2}

\* The same two settings for the teams of SpecShare.
ShareTurnLimits == {2}

ShareRequeryLimits == {0}

\* Number of Team.step calls a direct caller makes at most.
MaxSteps == 6

\* Number of Team.step calls the caller of SpecShare makes at most.
MaxShareSteps == 2

\* Number of failed Team.step calls after which a direct caller still calls again.
MaxFailedSteps == 1

\* Number of start() and stop() calls the caller of SpecDeploy makes at most.
MaxDeployCalls == 5

\* Number of agent configuration files given to the batch runner.
NumConfigFiles == 2

\* Number of instances of the batch, and of workers that run them.
NumInstances == 3

NumWorkers == 2

\* Number of instances the evaluator was run on.
NumEvalInstances == 2

\* Number of workers that call the evaluation hook, and the last reading of the
\* clock (in units of the evaluation interval's resolution).
NumHookWorkers == 2

MaxClock == 3

\* Values continuous_submission_every is drawn from.
Intervals == {0, 2}

\* templates.max_observation_length of every agent.
max_observation_length == 2

N == Len(AgentNames)

\* Agents are named by their index in Team.agents.
Agents == 0 .. (N - 1)

Max(x, y) == IF x >= y THEN x ELSE y

Min(x, y) == IF x <= y THEN x ELSE y

\* ------------------------------------------------------------------- state

VARIABLES
    \* Team configuration, fixed by construction
    max_consecutive_turns,        \* Team.max_consecutive_turns (team default)
    agent_max_consecutive_turns,  \* Team.agent_max_consecutive_turns[a]
    agent_attr_max_turns,         \* getattr(agent, "max_consecutive_turns", team default)
    enable_handoff_tool,          \* agent.config.tools.enable_handoff_tool
    configured_requeries,         \* the max_requeries each agent was configured with
    share_only_tool_results,      \* agent.share_only_tool_results
    not_using_tools,              \* agent.not_using_tools
    \* Team state
    current_agent_idx,            \* Team.current_agent_idx
    agent_consecutive_turns,      \* Team.agent_consecutive_turns[a]
    team_step_count,              \* Team.team_step_count
    trajectory,                   \* Team._trajectory
    agent_trajectory,             \* agent.trajectory, per agent
    history,                      \* agent.history, per agent
    info,                         \* Team.info (submission, exit_status, model_stats)
    max_requeries,                \* agent.max_requeries, per agent (current value)
    traj_path,                    \* Team.traj_path is set
    disk,                         \* content of the trajectory file
    \* Position of the caller
    pc,                           \* position in _run_instance / Team.run, or "direct"
    step_pc,                      \* "idle" or "in_agent_step" (inside Team.step)
    acting,                       \* local `agent` of the Team.step in progress
    original_max_requeries,       \* local of the Team.step in progress
    step_result,                  \* what the last Team.step handed to its caller
    step_output,                  \* the StepOutput object of the last step, as the
                                  \* on_step_done hook receives it
    exc,                          \* exception in flight in _run_instance
    \* Sandbox (SWEEnv over ApptainerDeployment)
    runtime,                      \* ApptainerDeployment._runtime is not None
    container_process,            \* "none" | "running" | "exited"
    container_name,               \* ApptainerDeployment._container_name is not None
    \* Batch runner (RunBatchTeam)
    agent_config_paths,           \* the configuration files given, by what is in them
    agent_configs,                \* RunBatchTeam.agent_configs (config objects)
    runner_pc,                    \* "new" | "ready" | "failed" (construction raised)
    instances,                    \* per instance: its state and the objects it holds
    config_store,                 \* content of every agent config object
    \* Evaluation summary (SweBenchEvaluate.move_reports_from_log_dir)
    reports,                      \* report.json per instance, or NoReport
    summary,                      \* summary.json, or NoSummary
    \* Continuous evaluation (SweBenchEvaluate.on_instance_completed)
    evaluation_interval,          \* SweBenchEvaluate.evaluation_interval
    last_evaluation_time,         \* SweBenchEvaluate.last_evaluation_time
    clock,                        \* time()
    merge_lock,                   \* holder of SweBenchEvaluate.merge_lock, 0 when free
    tmppreds,                     \* the file output_dir/tmppreds.json
    worker_pc,                    \* position of each worker in on_instance_completed
    current_time,                 \* local current_time of each worker
    opened,                       \* version of tmppreds.json each worker's evaluation opened
    \* Observations (what happened so far)
    obs

cfgVars == <<max_consecutive_turns, agent_max_consecutive_turns, agent_attr_max_turns,
             enable_handoff_tool, configured_requeries, share_only_tool_results,
             not_using_tools>>

teamVars == <<current_agent_idx, agent_consecutive_turns, team_step_count, trajectory,
              agent_trajectory, max_requeries, history, info>>

fileVars == <<traj_path, disk>>

stepVars == <<step_pc, acting, original_max_requeries, step_result, step_output>>

envVars == <<runtime, container_process, container_name>>

batchVars == <<agent_config_paths, agent_configs, runner_pc, instances, config_store>>

evalVars == <<reports, summary>>

hookVars == <<evaluation_interval, last_evaluation_time, clock, merge_lock, tmppreds,
              worker_pc, current_time, opened>>

hostVars == <<batchVars, evalVars, hookVars>>

\* The team, its files and its caller.
teamSide == <<cfgVars, teamVars, fileVars, pc, stepVars, exc>>

vars == <<cfgVars, teamVars, fileVars, pc, stepVars, exc, envVars, hostVars, obs>>

\* ------------------------------------------------------------ step outputs

\* Texts are sequences of characters (or of larger pieces of text).

\* StepOutput.action: a plain command, or the "__SPECIAL_TOOL__" marker followed by
\* a payload: a JSON object with function.name "handoff", "HANDOFF" or "bash", or
\* text that is not JSON.
SpecialMarker == "__SPECIAL_TOOL__"

ActionKinds ==
    {<<"ls">>} \cup {<<SpecialMarker, p>> : p \in {"handoff", "HANDOFF", "bash", "{not json"}}

\* One entry of StepOutput.tool_calls: a dict with the given name, or "malformed"
\* for an entry that is no dict or whose name is no string.
ToolCallKinds == {"bash", "handoff", "HANDOFF", "malformed"}

\* StepOutput.observation: empty, blank, at max_observation_length, longer.
Observations == {<<>>, <<" ">>, <<"x", "y">>, <<"x", "y", "z">>}

\* str.lower() on the names above.
Lower(name) == IF name = "HANDOFF" THEN "handoff" ELSE name

\* str.strip() leaves nothing.
IsBlank(text) == \A i \in 1 .. Len(text) : text[i] = " "

\* The StepOutput an agent returns, as far as Team.step reads it.
StepOutput(action, tool_calls, tool_call_ids, observation) ==
    [thought |-> <<"t">>, action |-> action, output |-> <<"o">>,
     observation |-> observation, tool_calls |-> tool_calls,
     tool_call_ids |-> tool_call_ids]

\* StepOutput(): the empty step.
EmptyStepOutput == StepOutput(<<>>, <<>>, <<>>, <<>>)

\* The value Team.step hands back when it returns normally.
NoneValue == [none |-> TRUE, done |-> FALSE]

StepOutputValue(d) == [none |-> FALSE, done |-> d]

\* --------------------------------------------------------------- scheduler

GetNextAgent_Le(idx, turns) ==
    LET t == turns[idx]
        m == agent_max_consecutive_turns[idx]
    IN  IF t = 0 \/ t <= m
        THEN [idx |-> idx, turns |-> [turns EXCEPT ![idx] = t + 1]]
        ELSE LET nxt == (idx + 1) % N
             IN  [idx |-> nxt, turns |-> [turns EXCEPT ![nxt] = 1]]

GetNextAgent_NoReset(idx, turns) ==
    LET t == turns[idx]
        m == agent_max_consecutive_turns[idx]
    IN  IF t = 0 \/ t < m
        THEN [idx |-> idx, turns |-> [turns EXCEPT ![idx] = t + 1]]
        ELSE [idx |-> (idx + 1) % N, turns |-> turns]

GetNextAgent_ResetsPrevious(idx, turns) ==
    LET t == turns[idx]
        m == agent_max_consecutive_turns[idx]
    IN  IF t = 0 \/ t < m
        THEN [idx |-> idx, turns |-> [turns EXCEPT ![idx] = t + 1]]
        ELSE LET nxt == (idx + 1) % N
             IN  [idx |-> nxt, turns |-> [turns EXCEPT ![idx] = 0, ![nxt] = 1]]

GetNextAgent_SkipsOne(idx, turns) ==
    LET t == turns[idx]
        m == agent_max_consecutive_turns[idx]
    IN  IF t = 0 \/ t < m
        THEN [idx |-> idx, turns |-> [turns EXCEPT ![idx] = t + 1]]
        ELSE LET nxt == (idx + 2) % N
             IN  [idx |-> nxt, turns |-> [turns EXCEPT ![nxt] = 1]]

\* Team._get_next_agent: the index that acts next and the counters after the call.
GetNextAgent(idx, turns) ==
    LET t == turns[idx]
        m == agent_max_consecutive_turns[idx]
    IN  IF t = 0 \/ t < m
        THEN [idx |-> idx, turns |-> [turns EXCEPT ![idx] = t + 1]]
        ELSE LET nxt == (idx + 1) % N
             IN  [idx |-> nxt, turns |-> [turns EXCEPT ![nxt] = 1]]

\* Team._get_remaining_turns
GetRemainingTurns(turns, a) == Max(0, agent_max_consecutive_turns[a] - turns[a])

DynamicMaxRequeries_Uncapped(original, remaining) ==
    IF remaining < 1 THEN 1 ELSE original

\* Team.step: the max_requeries set on the acting agent for the step.
DynamicMaxRequeries(original, remaining) ==
    IF remaining < 1 THEN 1 ELSE Min(original, remaining)

RetryTurns_All(k) == IF k > 0 THEN k ELSE 0

\* Team.step: what reported retries add to the acting agent's consecutive turns.
RetryTurns(k) == IF k > 0 THEN Min(k, 1) ELSE 0

\* Team.step: the team step counter after the agent reported k retries.
StepCountAfterRetries(count, k) == IF k > 0 THEN count + k ELSE count

\* Team.step: the value a detected handoff writes into the acting agent's counter.
HandoffTurns(a) == agent_attr_max_turns[a]

\* Team._check_for_handoff, the special-marker test: TRUE when the action carries
\* the marker and its payload parses to an object whose function.name is handoff.
SpecialHandoff(action) ==
    /\ Len(action) = 2
    /\ action[1] = SpecialMarker
    /\ action[2] # "{not json"
    /\ Lower(action[2]) = "handoff"

\* Team._check_for_handoff, the loop over tool_calls from entry i on.
RECURSIVE ScanToolCalls(_, _)
ScanToolCalls(tool_calls, i) ==
    IF i > Len(tool_calls) THEN "no"
    ELSE IF tool_calls[i] = "malformed" THEN "raise"
    ELSE IF Lower(tool_calls[i]) = "handoff" THEN "yes"
    ELSE ScanToolCalls(tool_calls, i + 1)

CheckForHandoff_IgnoreFlag(a, action, tool_calls) ==
    IF SpecialHandoff(action) THEN "yes"
    ELSE IF tool_calls = <<>> THEN "no"
    ELSE ScanToolCalls(tool_calls, 1)

\* Team._check_for_handoff: "yes", "no", or "raise" when an exception escapes.
CheckForHandoff(a, action, tool_calls) ==
    IF ~enable_handoff_tool[a] THEN "no"
    ELSE IF SpecialHandoff(action) THEN "yes"
    ELSE IF tool_calls = <<>> THEN "no"
    ELSE ScanToolCalls(tool_calls, 1)

\* -------------------------------------------------------------- propagator

\* agent.name
Name(a) == AgentNames[a + 1]

\* A piece of message content: a literal prefix, the template it was rendered
\* through ("" for none), the text put in, and the elided_chars reported.
Content(prefix, template, body, elided_chars) ==
    [prefix |-> prefix, template |-> template, body |-> body,
     elided_chars |-> elided_chars]

\* An entry of agent.history. via tells whether the agent's own step wrote it or
\* the team propagated it from the step of agent src; agent is its "agent" field.
HistoryItem(via, src, role, content, agent, message_type, thought, action, tool_calls, ids) ==
    [via |-> via, src |-> src, role |-> role, content |-> content, agent |-> agent,
     message_type |-> message_type, thought |-> thought, action |-> action,
     tool_calls |-> tool_calls, tool_call_ids |-> ids]

\* add_step_to_history(step, name): the representation of a step in a history.
StepHistoryItem(via, src, step) ==
    HistoryItem(via, src, "assistant", Content(<<>>, "", step.output, 0), Name(src),
                "action", step.thought, step.action, step.tool_calls,
                step.tool_call_ids)

\* DefaultAgent.step on success: the agent records the step in its own history.
AgentStepHistory(own, a, step) == Append(own, StepHistoryItem("own", a, step))

ShareStep_Alias(step, a) ==
    LET view == [step EXCEPT !.output = <<"[", Name(a), "]: ">> \o step.thought]
    IN  [original |-> view, to_share_step |-> view]

\* Team.step: the broadcast view, a deep copy of the step with its output
\* rewritten, and the original step object after the view was made.
ShareStep(step, a) ==
    [original |-> step,
     to_share_step |-> [step EXCEPT !.output = <<"[", Name(a), "]: ">> \o step.thought]]

Receivers_All(src) == Agents

\* Team.step: the agents the step of src is propagated to.
Receivers(src) == Agents \ {src}

ShareMode_FlagsFirst(handoff_requested, share_only, no_tools) ==
    IF share_only THEN "tool_results"
    ELSE IF no_tools THEN "thought"
    ELSE "full"

\* Team.step: the branch of the propagation loop taken for every receiver.
ShareMode(handoff_requested, share_only, no_tools) ==
    IF handoff_requested THEN "full"
    ELSE IF share_only THEN "tool_results"
    ELSE IF no_tools THEN "thought"
    ELSE "full"

TruncateObservation_NoCut(observation, limit) ==
    IF Len(observation) > limit
    THEN [template |-> "next_step_truncated_observation_template",
          observation |-> observation,
          elided_chars |-> Len(observation) - limit]
    ELSE [template |-> "next_step_template", observation |-> observation,
          elided_chars |-> 0]

\* Team._share_tool_results_only: template, observation text and elided_chars.
TruncateObservation(observation, limit) ==
    IF Len(observation) > limit
    THEN [template |-> "next_step_truncated_observation_template",
          observation |-> SubSeq(observation, 1, limit),
          elided_chars |-> Len(observation) - limit]
    ELSE [template |-> "next_step_template", observation |-> observation,
          elided_chars |-> 0]

\* _add_templated_messages_to_history: the rendered observation as a message of
\* the receiving agent.
TemplatedHistoryItem(src, dst, rendered) ==
    HistoryItem("propagated", src, "user",
                Content(<<>>, rendered.template, rendered.observation,
                        rendered.elided_chars),
                Name(dst), "observation", <<>>, <<>>, <<>>, <<>>)

ShareToolResultsOnly_AlsoNoTools(src, dst, step) ==
    IF step.observation = <<>> \/ IsBlank(step.observation) THEN <<>>
    ELSE LET rendered == TruncateObservation(step.observation, max_observation_length)
         IN  IF step.tool_calls # <<>> /\ step.tool_call_ids # <<>>
             THEN << HistoryItem("propagated", src, "assistant",
                                 Content(<<"driver used tool: ">>, "", step.action, 0),
                                 Name(src), "action", <<>>, <<>>, <<>>, <<>>),
                     TemplatedHistoryItem(src, dst, rendered) >>
             ELSE << HistoryItem("propagated", src, "user",
                                 Content(<<"[", Name(dst), "]: ">>, rendered.template,
                                         rendered.observation, rendered.elided_chars),
                                 Name(dst), "observation", <<>>, <<>>, <<>>, <<>>) >>

ShareToolResultsOnly_WithCalls(src, dst, step) ==
    IF not_using_tools[src] THEN <<>>
    ELSE IF step.observation = <<>> \/ IsBlank(step.observation) THEN <<>>
    ELSE LET rendered == TruncateObservation(step.observation, max_observation_length)
         IN  IF step.tool_calls # <<>> /\ step.tool_call_ids # <<>>
             THEN << HistoryItem("propagated", src, "assistant",
                                 Content(<<"driver used tool: ">>, "", step.action, 0),
                                 Name(src), "action", <<>>, <<>>, step.tool_calls,
                                 step.tool_call_ids),
                     TemplatedHistoryItem(src, dst, rendered) >>
             ELSE << HistoryItem("propagated", src, "user",
                                 Content(<<"[", Name(dst), "]: ">>, rendered.template,
                                         rendered.observation, rendered.elided_chars),
                                 Name(dst), "observation", <<>>, <<>>, <<>>, <<>>) >>

\* Team._share_tool_results_only: the entries appended to the history of dst.
ShareToolResultsOnly(src, dst, step) ==
    IF not_using_tools[src] THEN <<>>
    ELSE IF step.observation = <<>> \/ IsBlank(step.observation) THEN <<>>
    ELSE LET rendered == TruncateObservation(step.observation, max_observation_length)
         IN  IF step.tool_calls # <<>> /\ step.tool_call_ids # <<>>
             THEN << HistoryItem("propagated", src, "assistant",
                                 Content(<<"driver used tool: ">>, "", step.action, 0),
                                 Name(src), "action", <<>>, <<>>, <<>>, <<>>),
                     TemplatedHistoryItem(src, dst, rendered) >>
             ELSE << HistoryItem("propagated", src, "user",
                                 Content(<<"[", Name(dst), "]: ">>, rendered.template,
                                         rendered.observation, rendered.elided_chars),
                                 Name(dst), "observation", <<>>, <<>>, <<>>, <<>>) >>

\* Team.step: the thought-only entry a source without tools leaves with a peer.
ThoughtHistoryItem(src, step) ==
    HistoryItem("propagated", src, "assistant", Content(<<>>, "", step.thought, 0),
                Name(src), "non_tool_thought", step.thought, <<>>, <<>>, <<>>)

\* Team.step: the entries one pass of the propagation loop appends to dst.
PropagatedItems(src, dst, handoff_requested, step) ==
    LET mode == ShareMode(handoff_requested, share_only_tool_results[src],
                          not_using_tools[src])
    IN  CASE mode = "tool_results" -> ShareToolResultsOnly(src, dst, step)
          [] mode = "thought" -> << ThoughtHistoryItem(src, step) >>
          [] OTHER -> << StepHistoryItem("propagated", src, step) >>

\* Team.step: the histories after the propagation loop.
Propagate(hist, src, handoff_requested, step) ==
    [dst \in Agents |->
        IF dst \in Receivers(src)
        THEN hist[dst] \o PropagatedItems(src, dst, handoff_requested, step)
        ELSE hist[dst]]

TrajectoryAfterStep_All(traj, own) == traj \o own

\* Team.step: the shared trajectory after the acting agent's step.
TrajectoryAfterStep(traj, own) ==
    IF Len(own) > 0 THEN Append(traj, own[Len(own)]) ELSE traj

\* DefaultAgent.step on success: the agent records the step in its own trajectory.
AgentStepTrajectory(own, a) == Append(own, [agent |-> a, n |-> Len(own) + 1])

SaveTrajectory_Stale(path, file, traj) ==
    IF ~path THEN file
    ELSE [exists |-> TRUE, trajectory |-> SubSeq(traj, 1, Len(traj) - 1)]

\* Team.save_trajectory: the trajectory file after the call.
SaveTrajectory(path, file, traj) ==
    IF ~path THEN file ELSE [exists |-> TRUE, trajectory |-> traj]

\* Team.info of a team that has taken no step.
NoInfo == [submission |-> "", exit_status |-> "", model_stats |-> <<>>]

\* Team.step: the team info after the step of agent a. A step that is done
\* carries a submission and an exit status, another step carries neither; the
\* statistics of the acting agent's model are copied in every step.
InfoAfterStep(inf, a, done, own) ==
    [submission |-> IF done THEN "patch" ELSE inf.submission,
     exit_status |-> IF done THEN "submitted" ELSE inf.exit_status,
     model_stats |-> <<a, Len(own)>>]

\* Team.step: the histories when the propagation loop raises on reaching the
\* receiver `failing`: the receivers before it have their entries.
PropagateUntil(hist, src, handoff_requested, step, failing) ==
    [dst \in Agents |->
        IF dst \in Receivers(src) /\ dst < failing
        THEN hist[dst] \o PropagatedItems(src, dst, handoff_requested, step)
        ELSE hist[dst]]

RestoreMaxRequeries_OnReturnOnly(outcome, current, original) ==
    IF outcome = "returned" THEN original ELSE current

\* Team.step, the finally clause: the acting agent's max_requeries when the step
\* is left with the given outcome.
RestoreMaxRequeries(outcome, current, original) == original

\* ----------------------------------------------------------------- sandbox

StartOutcomes == {"ok", "pull_failed", "launch_failed", "timeout", "env_failed"}

\* ApptainerDeployment.stop on a deployment state d: the state after it and the
\* number of container processes it terminated.
\* It also gives the number of runtimes it closed.
DeploymentStop_SignalsByName(d) ==
    [runtime |-> FALSE,
     container_process |-> "none",
     container_name |-> IF d.container_process # "none" THEN FALSE ELSE d.container_name,
     terminated |-> IF d.container_name THEN 1 ELSE 0,
     closed_runtime |-> IF d.runtime THEN 1 ELSE 0]

DeploymentStop(d) ==
    [runtime |-> FALSE,
     container_process |-> "none",
     container_name |-> IF d.container_process # "none" THEN FALSE ELSE d.container_name,
     terminated |-> IF d.container_process = "running" THEN 1 ELSE 0,
     closed_runtime |-> IF d.runtime THEN 1 ELSE 0]

\* ApptainerDeployment.start (and _wait_until_alive) from a fresh deployment.
DeploymentStart(outcome) ==
    CASE outcome = "pull_failed" ->
            [runtime |-> FALSE, container_process |-> "none", container_name |-> FALSE,
             terminated |-> 0, closed_runtime |-> 0]
      [] outcome = "launch_failed" ->
            [runtime |-> FALSE, container_process |-> "none", container_name |-> TRUE,
             terminated |-> 0, closed_runtime |-> 0]
      [] outcome = "timeout" ->
            DeploymentStop([runtime |-> TRUE, container_process |-> "running",
                            container_name |-> TRUE])
      [] OTHER ->
            [runtime |-> TRUE, container_process |-> "running", container_name |-> TRUE,
             terminated |-> 0, closed_runtime |-> 0]

\* The outcomes of ApptainerDeployment.start alone.
DeployOutcomes == {"ok", "pull_failed", "launch_failed", "timeout"}

\* The deployment as a record.
Deployment(rt, process, name) ==
    [runtime |-> rt, container_process |-> process, container_name |-> name]

\* ApptainerDeployment.start from any deployment state d: a failed image pull
\* raises before anything is written, and a container name left from an earlier
\* start fails the assertion that follows the pull.
DeploymentStartFrom(d, outcome) ==
    IF outcome = "pull_failed" \/ d.container_name
    THEN [runtime |-> d.runtime, container_process |-> d.container_process,
          container_name |-> d.container_name, terminated |-> 0, closed_runtime |-> 0,
          raised |-> TRUE]
    ELSE LET r == DeploymentStart(outcome)
         IN  [runtime |-> r.runtime, container_process |-> r.container_process,
              container_name |-> r.container_name, terminated |-> r.terminated,
              closed_runtime |-> r.closed_runtime, raised |-> outcome # "ok"]

\* stop(): the seconds it waits for the process after SIGTERM and after each
\* SIGKILL, and the number of SIGKILLs it sends at most.
TerminateWait == 10

KillWait == 5

KillAttempts == 3

\* How a container process answers stop(): terminate() raises or not, and the
\* number of SIGKILLs after which it has exited within the wait (0: it exits
\* within the wait that follows SIGTERM; KillAttempts + 1: it outlives them all).
ProcessResponse(terminate_raises, kills_needed) ==
    [terminate_raises |-> terminate_raises, kills_needed |-> kills_needed]

ProcessResponses ==
    {ProcessResponse(TRUE, 0)}
    \cup {ProcessResponse(FALSE, k) : k \in 0 .. (KillAttempts + 1)}

\* The answers a process in the given state can give: one that has exited is
\* waited for in no time.
ResponsesOf(process) ==
    IF process = "running" THEN ProcessResponses
    ELSE {r \in ProcessResponses : r.kills_needed = 0}

RECURSIVE KillLoop_NoBreak(_, _)
KillLoop_NoBreak(i, kills_needed) ==
    IF i > KillAttempts THEN [kills |-> KillAttempts, exited |-> kills_needed <= KillAttempts]
    ELSE KillLoop_NoBreak(i + 1, kills_needed)

\* stop(), the loop `for _ in range(3)` from its i-th pass on: the SIGKILLs sent
\* when the loop is left and whether a wait saw the process exit.
RECURSIVE KillLoop(_, _)
KillLoop(i, kills_needed) ==
    IF i > KillAttempts THEN [kills |-> KillAttempts, exited |-> FALSE]
    ELSE IF kills_needed <= i THEN [kills |-> i, exited |-> TRUE]
    ELSE KillLoop(i + 1, kills_needed)

\* No signal was sent (there was no process handle).
NoEscalation ==
    [signals |-> <<>>, max_wait |-> 0, exited |-> FALSE, gave_up |-> FALSE,
     caught |-> FALSE, response |-> ProcessResponse(FALSE, 0)]

\* stop(), the block under `if self._container_process is not None`: the signals
\* sent in order, the longest time waited, whether the process was seen to exit,
\* whether stop() gave up on it, whether an exception was caught and logged, and
\* the answer of the process.
StopEscalation(resp) ==
    IF resp.terminate_raises
    THEN [signals |-> <<>>, max_wait |-> 0, exited |-> FALSE, gave_up |-> FALSE,
          caught |-> TRUE, response |-> resp]
    ELSE IF resp.kills_needed = 0
    THEN [signals |-> <<"SIGTERM">>, max_wait |-> TerminateWait, exited |-> TRUE,
          gave_up |-> FALSE, caught |-> FALSE, response |-> resp]
    ELSE LET r == KillLoop(1, resp.kills_needed)
         IN  [signals |-> <<"SIGTERM">> \o [j \in 1 .. r.kills |-> "SIGKILL"],
              max_wait |-> TerminateWait + r.kills * KillWait,
              exited |-> r.exited, gave_up |-> ~r.exited, caught |-> FALSE,
              response |-> resp]

\* ApptainerDeployment.stop on a deployment state d, when closing the runtime
\* raises or not and the process answers with resp: closing the runtime is not
\* guarded, so its exception leaves stop() before anything is written.
DeploymentStopWith(d, close_raises, resp) ==
    IF d.runtime /\ close_raises
    THEN [runtime |-> d.runtime, container_process |-> d.container_process,
          container_name |-> d.container_name, terminated |-> 0, closed_runtime |-> 0,
          raised |-> TRUE, escalation |-> NoEscalation, orphaned |-> FALSE]
    ELSE LET s == DeploymentStop(d)
             e == IF d.container_process = "none" THEN NoEscalation
                  ELSE StopEscalation(resp)
             alive == d.container_process = "running" /\ ~e.exited
         IN  [runtime |-> s.runtime, container_process |-> s.container_process,
              container_name |-> s.container_name,
              terminated |-> IF alive THEN 0 ELSE s.terminated,
              closed_runtime |-> s.closed_runtime, raised |-> FALSE, escalation |-> e,
              orphaned |-> alive]

CloseCalls_OnlyOnSuccess(e, n) == IF e = "none" THEN n + 1 ELSE n

\* _run_instance: env.close() calls made once the try statement is left with
\* exception e in flight ("none" for a normal exit), n calls having been made before.
CloseCalls(e, n) == n + 1

\* _run_instance: whether the statements after its try statement (save_predictions,
\* on_instance_completed, return result) run, given the exception e in flight when
\* the finally clause is over.
RunsAfterTry_Always(e) == TRUE

RunsAfterTry(e) == e = "none"

\* The hooks fired between env.start() and the loop of Team.run, in order.
SetupEvents_RunStartFirst == <<"on_run_start", "on_instance_start">>

SetupEvents == <<"on_instance_start", "on_run_start">>

\* What the end of _run_instance does, in order, with exception e in flight.
FinallyEvents(e) ==
    <<"sandbox_close">>
    \o (IF RunsAfterTry(e) THEN <<"save_predictions", "on_instance_completed">> ELSE <<>>)

\* -------------------------------------------------------------------- init

\* Per-agent overrides of max_consecutive_turns in the agent configs; 0 stands for
\* a config that carries no override. The first agent is the one that may carry one.
Overrides ==
    {[a \in Agents |-> 0]}
    \cup {[a \in Agents |-> IF a = 0 THEN m ELSE 0] : m \in TurnLimits}

\* enable_handoff_tool of the agents: enabled for all, or disabled for the first.
HandoffConfigs ==
    {[a \in Agents |-> TRUE], [a \in Agents |-> a # 0]}

\* The clock readings of the last two continuous evaluations that were started;
\* -1 where there was none.
NoneStarted == [last |-> -1, prev |-> -1]

InitObs ==
    [calls |-> 0, acted |-> [a \in Agents |-> 0], any_retry |-> FALSE,
     any_handoff |-> FALSE, retries_total |-> 0, agent_returns |-> 0,
     handoff_signalled |-> {}, after_handoff_of |-> {}, remaining |-> 0,
     last_done |-> FALSE, done_seen |-> FALSE, last_outcome |-> "none",
     last_output |-> NoneValue, run_steps |-> 0, close_calls |-> 0, terminations |-> 0,
     started |-> "none", on_run_done |-> FALSE, result_returned |-> FALSE,
     predictions_saved |-> FALSE, instance_completed |-> FALSE, saves |-> 0,
     failed_steps |-> 0, step_done_hooks |-> 0, agent_step |-> EmptyStepOutput,
     handoff |-> "none",
     turns_after_retries |-> 0, len_before |-> [a \in Agents |-> 0], events |-> <<>>,
     deploy |-> [calls |-> 0, starts |-> 0, last_call |-> "none", prev_call |-> "none",
                 before |-> Deployment(FALSE, "none", FALSE), terminated |-> 0,
                 closed_runtime |-> 0, raised |-> FALSE, prev_raised |-> FALSE,
                 escalation |-> NoEscalation, orphaned |-> FALSE, orphans |-> 0,
                 in_timeout |-> FALSE, timed_out |-> FALSE],
     hook |-> [failure |-> "none", logged_by |-> "none", left_hook |-> FALSE,
               runner_raised |-> FALSE, started |-> NoneStarted, on_end |-> "none"]]

\* share_only_tool_results and not_using_tools of the agents (the same for all).
SharingFlags ==
    {[share_only |-> [a \in Agents |-> so], no_tools |-> [a \in Agents |-> nt]] :
        so \in BOOLEAN, nt \in BOOLEAN}

\* A team whose agents share full context and use tools.
PlainSharing == [share_only |-> [a \in Agents |-> FALSE], no_tools |-> [a \in Agents |-> FALSE]]

\* Team.__init__ / Team.from_config; where is "direct", "ri_begin" or "share".
InitAt(where) ==
    /\ \E tm \in IF where = "share" THEN ShareTurnLimits ELSE TurnLimits,
          ov \in IF where = "share" THEN {[a \in Agents |-> 0]} ELSE Overrides,
          from_config \in BOOLEAN, has_attr \in BOOLEAN :
          /\ max_consecutive_turns = tm
          /\ agent_max_consecutive_turns =
                [a \in Agents |-> IF from_config /\ ov[a] > 0 THEN ov[a] ELSE tm]
          /\ agent_attr_max_turns =
                [a \in Agents |-> IF has_attr /\ ov[a] > 0 THEN ov[a] ELSE tm]
    /\ enable_handoff_tool \in HandoffConfigs
    /\ \E rq \in IF where = "share" THEN ShareRequeryLimits ELSE RequeryLimits :
          configured_requeries = [a \in Agents |-> rq]
    /\ \E fl \in IF where = "share" THEN SharingFlags ELSE {PlainSharing} :
          /\ share_only_tool_results = fl.share_only
          /\ not_using_tools = fl.no_tools
    /\ max_requeries = configured_requeries
    /\ history = [a \in Agents |-> <<>>]
    /\ info = NoInfo
    /\ step_output = EmptyStepOutput
    /\ current_agent_idx = 0
    /\ agent_consecutive_turns = [a \in Agents |-> 0]
    /\ team_step_count = 0
    /\ trajectory = <<>>
    /\ agent_trajectory = [a \in Agents |-> <<>>]
    /\ traj_path = FALSE
    /\ disk = [exists |-> FALSE, trajectory |-> <<>>]
    /\ pc = where
    /\ step_pc = "idle"
    /\ acting = 0
    /\ original_max_requeries = 0
    /\ step_result = NoneValue
    /\ exc = "none"
    /\ runtime = FALSE
    /\ container_process = "none"
    /\ container_name = FALSE
    /\ obs = InitObs

\* A team that takes no step: the caller at `where` is the host of a team.
TeamIdle(where) ==
    /\ max_consecutive_turns = 2
    /\ agent_max_consecutive_turns = [a \in Agents |-> 2]
    /\ agent_attr_max_turns = [a \in Agents |-> 2]
    /\ enable_handoff_tool = [a \in Agents |-> TRUE]
    /\ configured_requeries = [a \in Agents |-> 0]
    /\ share_only_tool_results = PlainSharing.share_only
    /\ not_using_tools = PlainSharing.no_tools
    /\ max_requeries = configured_requeries
    /\ history = [a \in Agents |-> <<>>]
    /\ info = NoInfo
    /\ step_output = EmptyStepOutput
    /\ current_agent_idx = 0
    /\ agent_consecutive_turns = [a \in Agents |-> 0]
    /\ team_step_count = 0
    /\ trajectory = <<>>
    /\ agent_trajectory = [a \in Agents |-> <<>>]
    /\ traj_path = FALSE
    /\ disk = [exists |-> FALSE, trajectory |-> <<>>]
    /\ pc = where
    /\ step_pc = "idle"
    /\ acting = 0
    /\ original_max_requeries = 0
    /\ step_result = NoneValue
    /\ exc = "none"
    /\ runtime = FALSE
    /\ container_process = "none"
    /\ container_name = FALSE
    /\ obs = InitObs

\* No batch runner has been constructed.
BatchIdle ==
    /\ agent_config_paths = <<>>
    /\ agent_configs = <<>>
    /\ runner_pc = "new"
    /\ instances = <<>>
    /\ config_store = <<>>

NoSummary == [written |-> FALSE]

\* No evaluation has produced reports.
EvalIdle ==
    /\ reports = <<>>
    /\ summary = NoSummary

NoFile == [exists |-> FALSE, version |-> 0]

\* No evaluation hook is in use.
HookIdle ==
    /\ evaluation_interval = 0
    /\ last_evaluation_time = 0
    /\ clock = 0
    /\ merge_lock = 0
    /\ tmppreds = NoFile
    /\ worker_pc = <<>>
    /\ current_time = <<>>
    /\ opened = <<>>

HostIdle == BatchIdle /\ EvalIdle /\ HookIdle

Init == InitAt("direct") /\ HostIdle

InitRun == InitAt("ri_begin") /\ HostIdle

InitShare == InitAt("share") /\ HostIdle

\* A deployment that has been constructed and not started.
InitDeploy == TeamIdle("deploy") /\ HostIdle

\* --------------------------------------------------------------- Team.step

\* Steps of agent a that differ in what the scheduler makes of them: no handoff
\* and, for an agent with the handoff tool, a handoff and tool_calls that handoff
\* detection fails on.
SchedulerSteps(a) ==
    {StepOutput(<<"ls">>, <<>>, <<>>, <<"x", "y">>)}
    \cup IF enable_handoff_tool[a]
         THEN {StepOutput(<<SpecialMarker, "handoff">>, <<>>, <<>>, <<"x", "y">>),
               StepOutput(<<"ls">>, <<"malformed">>, <<"id">>, <<"x", "y">>)}
         ELSE {}

\* The tool_calls lists handoff detection is fed.
ToolCallLists ==
    {<<>>, <<"malformed", "handoff">>, <<"bash", "handoff">>, <<"handoff", "malformed">>}
    \cup {<<t>> : t \in ToolCallKinds}

\* Steps that differ in all that handoff detection reads of them.
HandoffSteps ==
    {StepOutput(ac, tc, IF tc = <<>> THEN <<>> ELSE <<"id">>, <<"x", "y">>) :
        ac \in ActionKinds, tc \in ToolCallLists}

\* Steps that differ in all that tool-result sharing reads of them.
ObservationSteps ==
    {StepOutput(<<"ls">>, tc, ids, ob) :
        tc \in {<<>>, <<"bash">>}, ids \in {<<>>, <<"id">>}, ob \in Observations}

\* What can raise in Team.step once handoff detection has returned.
LateNone == [at |-> "none", receiver |-> 0]

LateFailures(a) == {[at |-> "propagation", receiver |-> r] : r \in Receivers(a)}

\* What one call of agent.step() can do, as far as Team.step reads it: raise, or
\* return a StepOutput (its done flag, its content, and what handoff detection
\* makes of its action and tool_calls) having used at most max_requeries retries.
\* A direct caller of Team.step feeds non-terminal steps only (Team.step never
\* reads done). late tells what raises after handoff detection: nothing, or the
\* propagation loop on reaching some receiver (an exception of an on_step_done
\* hook is logged by the hook bus and does not reach Team.step).
AgentStepOutcomes(a, requeries, dones, steps, lates) ==
    {[raises |-> r, done |-> FALSE, retries |-> 0, step |-> EmptyStepOutput,
      handoff |-> "no", late |-> LateNone] : r \in {"error", "cost_limit"}}
    \cup {[raises |-> "no", done |-> d, retries |-> k, step |-> st,
           handoff |-> CheckForHandoff(a, st.action, st.tool_calls), late |-> l] :
            d \in dones, k \in 0 .. Max(0, requeries), st \in steps, l \in lates}

\* Team.step up to the call of agent.step(): select the agent, cap its
\* max_requeries, count the step.
StepBegin ==
    /\ pc \in {"direct", "share", "run_step"}
    /\ step_pc = "idle"
    /\ pc = "direct" => obs.calls < MaxSteps
    /\ pc = "share" => obs.calls < MaxShareSteps
    /\ pc # "run_step" => obs.failed_steps <= MaxFailedSteps
    /\ LET nx == GetNextAgent(current_agent_idx, agent_consecutive_turns)
           a == nx.idx
           remaining == GetRemainingTurns(nx.turns, a)
       IN  /\ current_agent_idx' = a
           /\ agent_consecutive_turns' = nx.turns
           /\ acting' = a
           /\ original_max_requeries' = max_requeries[a]
           /\ max_requeries' =
                 [max_requeries EXCEPT ![a] = DynamicMaxRequeries(max_requeries[a], remaining)]
           /\ team_step_count' = team_step_count + 1
           /\ obs' = [obs EXCEPT !.calls = @ + 1,
                                 !.acted[a] = @ + 1,
                                 !.remaining = remaining,
                                 !.after_handoff_of = obs.handoff_signalled,
                                 !.handoff_signalled = {},
                                 !.events = IF pc = "run_step"
                                            THEN Append(@, "agent_step") ELSE @,
                                 !.last_outcome = "running"]
    /\ step_pc' = "in_agent_step"
    /\ UNCHANGED <<cfgVars, trajectory, agent_trajectory, history, info, fileVars, pc,
                   step_result, step_output, exc, envVars, hostVars>>

\* What the agent.step() of the Team.step in progress may do. The steps of a
\* direct caller differ in what the scheduler reads of them: nothing raises in
\* them after handoff detection; elsewhere a late failure follows a step of the
\* kinds the scheduler tells apart.
StepInputs ==
    LET dones == IF pc = "run_step" THEN BOOLEAN ELSE {FALSE}
    IN  AgentStepOutcomes(acting, max_requeries[acting], dones,
                          IF pc = "share" THEN HandoffSteps \cup ObservationSteps
                          ELSE SchedulerSteps(acting),
                          {LateNone})
        \cup IF pc = "direct" THEN {}
             ELSE AgentStepOutcomes(acting, max_requeries[acting], dones,
                                    SchedulerSteps(acting), LateFailures(acting))

StepStages_HookInFinally(outcome) ==
    [detected |-> outcome \in {"propagation_raised", "returned"}, hooked |-> TRUE]

\* How far the try block of Team.step gets: handoff detection has returned
\* (detected); the propagation loop is over, the trajectory and the team info are
\* written and on_step_done is called (hooked).
StepStages(outcome) ==
    [detected |-> outcome \in {"propagation_raised", "returned"},
     hooked |-> outcome = "returned"]

\* Team.step from the return (or exception) of agent.step() to its own return:
\* retry accounting, handoff detection, propagation, trajectory append, team info,
\* the on_step_done hook and the restore of max_requeries.
StepEnd ==
    /\ step_pc = "in_agent_step"
    /\ \E in \in StepInputs :
          LET a == acting
              raises == in.raises
              d == in.done
              k == in.retries
              h == in.handoff
              own1 == AgentStepTrajectory(agent_trajectory[a], a)
              hist1 == [history EXCEPT ![a] = AgentStepHistory(@, a, in.step)]
              shared == ShareStep(in.step, a)
              turns1 == [agent_consecutive_turns EXCEPT ![a] = @ + RetryTurns(k)]
              turns2 == IF h = "yes" THEN [turns1 EXCEPT ![a] = HandoffTurns(a)]
                        ELSE turns1
              outcome == IF raises # "no" THEN "agent_raised"
                         ELSE IF h = "raise" THEN "detect_raised"
                         ELSE IF in.late.at = "propagation" THEN "propagation_raised"
                         ELSE "returned"
              detected == StepStages(outcome).detected
              hooked == StepStages(outcome).hooked
              failure == IF raises # "no" THEN raises ELSE "error"
          IN  /\ agent_consecutive_turns' =
                    CASE outcome = "agent_raised" -> agent_consecutive_turns
                      [] outcome = "detect_raised" -> turns1
                      [] OTHER -> turns2
              /\ team_step_count' =
                    IF outcome = "agent_raised" THEN team_step_count
                    ELSE StepCountAfterRetries(team_step_count, k)
              /\ agent_trajectory' =
                    IF outcome = "agent_raised" THEN agent_trajectory
                    ELSE [agent_trajectory EXCEPT ![a] = own1]
              /\ history' =
                    CASE outcome = "agent_raised" -> history
                      [] outcome = "detect_raised" -> hist1
                      [] outcome = "propagation_raised" ->
                            PropagateUntil(hist1, a, h = "yes", shared.to_share_step,
                                           in.late.receiver)
                      [] OTHER -> Propagate(hist1, a, h = "yes", shared.to_share_step)
              /\ step_output' = IF hooked THEN shared.original ELSE step_output
              /\ trajectory' =
                    IF hooked THEN TrajectoryAfterStep(trajectory, own1) ELSE trajectory
              /\ info' = IF hooked THEN InfoAfterStep(info, a, d, own1) ELSE info
              /\ max_requeries' =
                    [max_requeries EXCEPT ![a] =
                        RestoreMaxRequeries(outcome, @, original_max_requeries)]
              /\ step_result' = IF outcome = "returned" THEN NoneValue ELSE step_result
              /\ pc' = CASE pc # "run_step" -> pc
                         [] outcome = "returned" -> "run_save"
                         [] OTHER -> "ri_finally"
              /\ exc' = IF pc = "run_step" /\ outcome # "returned" THEN failure ELSE exc
              /\ obs' = [obs EXCEPT
                    !.any_retry = @ \/ (outcome # "agent_raised" /\ k > 0),
                    !.retries_total = IF outcome # "agent_raised" THEN @ + k ELSE @,
                    !.agent_returns = IF outcome # "agent_raised" THEN @ + 1 ELSE @,
                    !.any_handoff = @ \/ (detected /\ h = "yes"),
                    !.handoff_signalled =
                        IF detected /\ h = "yes" /\ ~d THEN {a} ELSE {},
                    !.last_done = (outcome # "agent_raised" /\ d),
                    !.done_seen = @ \/ (outcome # "agent_raised" /\ d),
                    !.last_output = IF outcome = "agent_raised" THEN NoneValue
                                    ELSE StepOutputValue(d),
                    !.run_steps = IF pc = "run_step" /\ outcome # "agent_raised"
                                  THEN @ + 1 ELSE @,
                    !.failed_steps = IF outcome = "returned" THEN @ ELSE @ + 1,
                    !.step_done_hooks = IF hooked THEN @ + 1 ELSE @,
                    !.agent_step = in.step,
                    !.turns_after_retries =
                        IF outcome = "agent_raised" THEN agent_consecutive_turns[a]
                        ELSE turns1[a],
                    !.handoff = IF outcome = "agent_raised" THEN "none" ELSE h,
                    !.len_before = [x \in Agents |-> Len(hist1[x])],
                    !.events = IF pc = "run_step" /\ hooked
                               THEN Append(@, "on_step_done") ELSE @,
                    !.last_outcome = outcome]
    /\ step_pc' = "idle"
    /\ UNCHANGED <<cfgVars, current_agent_idx, fileVars, acting, original_max_requeries,
                   envVars, hostVars>>

Next == StepBegin \/ StepEnd

Spec == Init /\ [][Next]_vars

SpecShare == InitShare /\ [][Next]_vars

\* ----------------------------------------------- _run_instance and Team.run

\* _run_instance up to env.start(): the team is built and the sandbox started;
\* a failed start leaves the try statement with the exception in flight.
RunInstanceStart ==
    /\ pc = "ri_begin"
    /\ \E outcome \in StartOutcomes :
          LET d == DeploymentStart(outcome)
          IN  /\ runtime' = d.runtime
              /\ container_process' = d.container_process
              /\ container_name' = d.container_name
              /\ pc' = IF outcome = "ok" THEN "run_setup" ELSE "ri_finally"
              /\ exc' = IF outcome = "ok" THEN "none" ELSE "start_failed"
              /\ obs' = [obs EXCEPT !.started = outcome,
                                    !.terminations = @ + d.terminated,
                                    !.events = IF outcome = "ok"
                                               THEN Append(@, "sandbox_start") ELSE @]
    /\ UNCHANGED <<cfgVars, teamVars, fileVars, stepVars, hostVars>>

\* on_instance_start, then Team.run up to its loop: setup, on_run_start and the
\* initial step_output = StepOutput().
TeamRunSetup ==
    /\ pc = "run_setup"
    /\ traj_path' = TRUE
    /\ step_result' = StepOutputValue(FALSE)
    /\ pc' = "run_loop"
    /\ obs' = [obs EXCEPT !.events = @ \o SetupEvents]
    /\ UNCHANGED <<cfgVars, teamVars, disk, step_pc, acting, original_max_requeries,
                   step_output, exc, envVars, hostVars>>

\* Team.run: the test of `while not step_output.done`, and what follows the loop.
RunLoopTest ==
    /\ pc = "run_loop"
    /\ IF step_result.none
       THEN \* None has no attribute done
            /\ pc' = "ri_finally"
            /\ exc' = "attribute_error"
            /\ obs' = obs
       ELSE IF step_result.done
       THEN \* on_run_done, AgentRunResult returned to _run_instance
            /\ pc' = "ri_finally"
            /\ exc' = "none"
            /\ obs' = [obs EXCEPT !.on_run_done = TRUE, !.result_returned = TRUE,
                                  !.events = Append(@, "on_run_done")]
       ELSE /\ pc' = "run_step"
            /\ exc' = exc
            /\ obs' = obs
    /\ UNCHANGED <<cfgVars, teamVars, fileVars, stepVars, envVars, hostVars>>

\* Team.run: save_trajectory() after the step of this iteration has returned.
RunSave ==
    /\ pc = "run_save"
    /\ disk' = SaveTrajectory(traj_path, disk, trajectory)
    /\ pc' = "run_loop"
    /\ obs' = [obs EXCEPT !.saves = @ + 1,
                          !.events = Append(@, "save_trajectory")]
    /\ UNCHANGED <<cfgVars, teamVars, traj_path, stepVars, exc, envVars, hostVars>>

\* _run_instance: the except/finally clauses and what follows the try statement.
RunInstanceFinally ==
    /\ pc = "ri_finally"
    /\ LET closes == CloseCalls(exc, obs.close_calls)
           closed == closes > obs.close_calls
           d == IF closed
                THEN DeploymentStop([runtime |-> runtime,
                                     container_process |-> container_process,
                                     container_name |-> container_name])
                ELSE [runtime |-> runtime, container_process |-> container_process,
                      container_name |-> container_name, terminated |-> 0]
       IN  /\ runtime' = d.runtime
           /\ container_process' = d.container_process
           /\ container_name' = d.container_name
           /\ pc' = IF exc = "none" THEN "ri_returned" ELSE "ri_raised"
           /\ obs' = [obs EXCEPT !.close_calls = closes,
                                 !.terminations = @ + d.terminated,
                                 !.predictions_saved = RunsAfterTry(exc),
                                 !.instance_completed = RunsAfterTry(exc),
                                 !.events = @ \o (IF closed THEN FinallyEvents(exc)
                                                  ELSE Tail(FinallyEvents(exc)))]
    /\ UNCHANGED <<cfgVars, teamVars, fileVars, stepVars, exc, hostVars>>

NextRun ==
    \/ RunInstanceStart
    \/ TeamRunSetup
    \/ RunLoopTest
    \/ StepBegin
    \/ StepEnd
    \/ RunSave
    \/ RunInstanceFinally

SpecRun == InitRun /\ [][NextRun]_vars

\* ----------------------------------------------------- ApptainerDeployment

\* What a call leaves in the record of the calls made on the deployment.
DeployCalled(call, d) ==
    [calls |-> obs.deploy.calls + 1,
     starts |-> obs.deploy.starts + (IF call = "start" THEN 1 ELSE 0),
     last_call |-> call,
     prev_call |-> obs.deploy.last_call,
     before |-> Deployment(runtime, container_process, container_name),
     terminated |-> d.terminated,
     closed_runtime |-> d.closed_runtime,
     raised |-> d.raised,
     prev_raised |-> obs.deploy.raised,
     escalation |-> d.escalation,
     orphaned |-> d.orphaned,
     orphans |-> obs.deploy.orphans + (IF d.orphaned THEN 1 ELSE 0),
     in_timeout |-> FALSE,
     timed_out |-> FALSE]

\* A call of start(), up to its return, its exception or, when the runtime does
\* not come alive in time, the except clause of _wait_until_alive.
DeployStart ==
    /\ pc = "deploy"
    /\ ~obs.deploy.in_timeout
    /\ obs.deploy.calls < MaxDeployCalls
    /\ \E outcome \in DeployOutcomes :
          LET before == Deployment(runtime, container_process, container_name)
              r == DeploymentStartFrom(before, IF outcome = "timeout" THEN "ok" ELSE outcome)
              d == [runtime |-> r.runtime, container_process |-> r.container_process,
                    container_name |-> r.container_name, terminated |-> r.terminated,
                    closed_runtime |-> r.closed_runtime, raised |-> r.raised,
                    escalation |-> NoEscalation, orphaned |-> FALSE]
          IN  /\ runtime' = d.runtime
              /\ container_process' = d.container_process
              /\ container_name' = d.container_name
              /\ obs' = [obs EXCEPT !.deploy =
                    [DeployCalled("start", d) EXCEPT
                        !.in_timeout = (outcome = "timeout" /\ ~r.raised)]]
    /\ UNCHANGED <<teamSide, hostVars>>

\* _wait_until_alive, the except clause: the output of the container process has
\* been read (the process has closed it, exited or not), stop() is called and
\* the exception is raised again, unless stop() raised first.
TimeoutHandler ==
    /\ pc = "deploy"
    /\ obs.deploy.in_timeout
    /\ \E close_raises \in BOOLEAN, resp \in ResponsesOf(container_process) :
          LET d == DeploymentStopWith(Deployment(runtime, container_process,
                                                 container_name), close_raises, resp)
          IN  /\ runtime' = d.runtime
              /\ container_process' = d.container_process
              /\ container_name' = d.container_name
              /\ obs' = [obs EXCEPT !.deploy =
                    [@ EXCEPT !.terminated = d.terminated,
                              !.closed_runtime = d.closed_runtime,
                              !.raised = TRUE,
                              !.escalation = d.escalation,
                              !.orphaned = d.orphaned,
                              !.orphans = @ + (IF d.orphaned THEN 1 ELSE 0),
                              !.in_timeout = FALSE,
                              !.timed_out = TRUE]]
    /\ UNCHANGED <<teamSide, hostVars>>

\* A call of stop().
DeployStop ==
    /\ pc = "deploy"
    /\ ~obs.deploy.in_timeout
    /\ obs.deploy.calls < MaxDeployCalls
    /\ \E close_raises \in IF runtime THEN BOOLEAN ELSE {FALSE},
          resp \in ResponsesOf(container_process) :
          LET d == DeploymentStopWith(Deployment(runtime, container_process,
                                                 container_name), close_raises, resp)
          IN  /\ runtime' = d.runtime
              /\ container_process' = d.container_process
              /\ container_name' = d.container_name
              /\ obs' = [obs EXCEPT !.deploy = DeployCalled("stop", d)]
    /\ UNCHANGED <<teamSide, hostVars>>

\* The container process ends by itself (poll() is no longer None).
ContainerExits ==
    /\ pc = "deploy"
    /\ container_process = "running"
    /\ container_process' = "exited"
    /\ UNCHANGED <<teamSide, runtime, container_name, hostVars, obs>>

NextDeploy ==
    \/ DeployStart
    \/ TimeoutHandler
    \/ DeployStop
    \/ ContainerExits

SpecDeploy == InitDeploy /\ [][NextDeploy]_vars

\* ------------------------------------------------------------ RunBatchTeam

\* What an agent configuration file can be: a valid one, one that cannot be
\* opened, one that is not YAML, one without the agent section and one whose
\* agent section does not validate.
FileKinds == {"valid", "unreadable", "not_yaml", "no_agent_section", "not_valid"}

InstanceIds == 1 .. NumInstances

\* RunBatchTeam._load_agent_configs: the files (by position) whose configuration
\* is in the list returned; a file that fails is logged and passed over.
LoadAgentConfigs(paths) ==
    SelectSeq([i \in 1 .. Len(paths) |-> i], LAMBDA i : paths[i] = "valid")

\* The config object made of the k-th configuration loaded.
BaseConfig(k) == [kind |-> "config", of |-> 0, index |-> k]

CloneConfig_Alias(config, i, k) == config

\* config.model_copy(deep=True) in the _run_instance of instance i: a new object.
CloneConfig(config, i, k) == [kind |-> "config", of |-> i, index |-> k]

\* The agent config that the replay config of an instance refers to.
ReplayAgent(base_configs) == base_configs[1]

NotStarted == [state |-> "pending"]

\* The objects an instance holds once _run_instance has built its team.
Objects(i) ==
    IF instances[i].state = "pending" THEN {}
    ELSE {instances[i].team, instances[i].replay_agent}
         \cup {instances[i].agents[k] : k \in DOMAIN instances[i].agents}
         \cup {instances[i].agent_configs[k] : k \in DOMAIN instances[i].agent_configs}

\* The batch runner is about to be constructed on some configuration files.
InitBatch ==
    /\ TeamIdle("batch") /\ EvalIdle /\ HookIdle
    /\ agent_config_paths \in [1 .. NumConfigFiles -> FileKinds]
    /\ agent_configs = <<>>
    /\ runner_pc = "new"
    /\ instances = [i \in InstanceIds |-> NotStarted]
    /\ config_store = <<>>

\* RunBatchTeam.__init__: load the configurations; fail if none loaded.
RunBatchInit ==
    /\ pc = "batch"
    /\ runner_pc = "new"
    /\ LET loaded == LoadAgentConfigs(agent_config_paths)
       IN  /\ agent_configs' = [k \in 1 .. Len(loaded) |-> BaseConfig(k)]
           /\ config_store' = [c \in {BaseConfig(k) : k \in 1 .. Len(loaded)} |->
                                   loaded[c.index]]
           /\ runner_pc' = IF loaded = <<>> THEN "failed" ELSE "ready"
    /\ UNCHANGED <<teamSide, envVars, agent_config_paths, instances, evalVars, hookVars,
                   obs>>

\* _run_instance of instance i up to the start of its environment: clone the
\* configurations, build the team and its agents, attach the replay config.
InstanceStart(i) ==
    /\ pc = "batch"
    /\ runner_pc = "ready"
    /\ instances[i].state = "pending"
    /\ Cardinality({j \in InstanceIds : instances[j].state = "running"}) < NumWorkers
    /\ LET clones == [k \in DOMAIN agent_configs |-> CloneConfig(agent_configs[k], i, k)]
       IN  /\ instances' = [instances EXCEPT ![i] =
                 [state |-> "running",
                  team |-> [kind |-> "team", of |-> i, index |-> 0],
                  agents |-> [k \in DOMAIN clones |-> [kind |-> "agent", of |-> i, index |-> k]],
                  agent_configs |-> clones,
                  replay_agent |-> ReplayAgent(agent_configs)]]
           /\ config_store' =
                 [c \in DOMAIN config_store \cup {clones[k] : k \in DOMAIN clones} |->
                     IF c \in DOMAIN config_store THEN config_store[c]
                     ELSE config_store[agent_configs[c.index]]]
    /\ UNCHANGED <<teamSide, envVars, agent_config_paths, agent_configs, runner_pc,
                   evalVars, hookVars, obs>>

\* _run_instance of instance i is over (it returned or raised).
InstanceEnd(i) ==
    /\ pc = "batch"
    /\ instances[i].state = "running"
    /\ instances' = [instances EXCEPT ![i].state = "done"]
    /\ UNCHANGED <<teamSide, envVars, agent_config_paths, agent_configs, runner_pc,
                   config_store, evalVars, hookVars, obs>>

NextBatch ==
    \/ RunBatchInit
    \/ \E i \in InstanceIds : InstanceStart(i)
    \/ \E i \in InstanceIds : InstanceEnd(i)

SpecBatch == InitBatch /\ [][NextBatch]_vars

\* ------------------------------------- SweBenchEvaluate: summary of reports

EvalInstances == 1 .. NumEvalInstances

\* The content of a report.json, as far as the summary reads it.
ReportValues ==
    [patch_is_None : BOOLEAN, patch_exists : BOOLEAN,
     patch_successfully_applied : BOOLEAN, resolved : BOOLEAN]

\* What the log directory holds for an instance: a report, no report.json, or
\* a report.json that cannot be read.
MissingReport == [file |-> "missing"]

UnreadableReport == [file |-> "unreadable"]

ReportFiles == ReportValues \cup {MissingReport, UnreadableReport}

\* The file is a report.json that was read.
IsReport(file) == "patch_exists" \in DOMAIN file

Category_AppliedFirst(report) ==
    IF ~report.patch_successfully_applied THEN "error"
    ELSE IF report.patch_is_None \/ ~report.patch_exists THEN "empty_patch"
    ELSE IF report.patch_successfully_applied /\ report.resolved THEN "resolved"
    ELSE IF report.patch_successfully_applied /\ ~report.resolved THEN "unresolved"
    ELSE "none"

\* move_reports_from_log_dir: the branch of the if/elif chain a report takes.
Category(report) ==
    IF report.patch_is_None \/ ~report.patch_exists THEN "empty_patch"
    ELSE IF ~report.patch_successfully_applied THEN "error"
    ELSE IF report.patch_successfully_applied /\ report.resolved THEN "resolved"
    ELSE IF report.patch_successfully_applied /\ ~report.resolved THEN "unresolved"
    ELSE "none"

\* move_reports_from_log_dir: summary.json for the reports that could be read.
SummaryOf(files) ==
    LET combined == {i \in DOMAIN files : IsReport(files[i])}
        In(c) == {i \in combined : Category(files[i]) = c}
        completed == In("resolved") \cup In("unresolved")
    IN  [written |-> TRUE,
         submitted_instances |-> combined,
         completed_instances |-> completed,
         resolved_instances |-> In("resolved"),
         unresolved_instances |-> In("unresolved"),
         empty_patch_instances |-> In("empty_patch"),
         error_instances |-> In("error"),
         unstopped_instances |-> {},
         metrics |-> [total_instances |-> Cardinality(combined),
                      submitted_instances |-> Cardinality(combined),
                      completed_instances |-> Cardinality(completed),
                      resolved_instances |-> Cardinality(In("resolved")),
                      unresolved_instances |-> Cardinality(In("unresolved")),
                      empty_patch_instances |-> Cardinality(In("empty_patch")),
                      error_instances |-> Cardinality(In("error")),
                      unstopped_instances |-> 0]]

\* Nothing is written when the run directory holds no report.json.
NoReportsFound == [written |-> FALSE, warned |-> TRUE]

\* The evaluator has run and left its reports.
InitEval ==
    /\ TeamIdle("eval") /\ BatchIdle /\ HookIdle
    /\ reports \in [EvalInstances -> ReportFiles]
    /\ summary = NoSummary

\* move_reports_from_log_dir
MoveReports ==
    /\ pc = "eval"
    /\ summary = NoSummary
    /\ summary' = IF \A i \in EvalInstances : reports[i] = MissingReport
                  THEN NoReportsFound
                  ELSE SummaryOf(reports)
    /\ UNCHANGED <<teamSide, envVars, batchVars, reports, hookVars, obs>>

NextEval == MoveReports

SpecEval == InitEval /\ [][NextEval]_vars

\* -------------------------------- SweBenchEvaluate: continuous evaluation

HookWorkers == 1 .. NumHookWorkers

\* The thread of RunBatch.main, which calls on_end when the workers are done.
Main == 0

\* What can fail inside run_local_evaluation: loading the predictions, running
\* the evaluator, collecting the reports.
EvalFailures == {"none", "load", "evaluator", "reports"}

\* CombinedRunHooks.on_instance_completed and on_end, as the specification has
\* them: an exception that leaves a hook is logged and goes no further.
CombinedRunHooks(hook_raised) == [logged |-> hook_raised, raised |-> FALSE]

RunLocalEvaluation_Silent(failure) == [logged |-> FALSE, raised |-> FALSE]

\* The try statement of run_local_evaluation: whatever fails inside is logged
\* with its traceback and not raised.
RunLocalEvaluation(failure) == [logged |-> failure # "none", raised |-> FALSE]

\* A statement of the hook outside any try statement: a failure leaves the hook.
Unguarded(failure) == [logged |-> FALSE, raised |-> failure # "none"]

\* What is seen of a hook call in which `failure` happened and the hook's own
\* code made `handled` of it: who logged it, and whether the runner got it.
HookReport(h, failure, handled) ==
    LET bus == CombinedRunHooks(handled.raised)
    IN  [h EXCEPT !.failure = failure,
                  !.logged_by = IF handled.logged THEN "hook"
                                ELSE IF bus.logged THEN "bus" ELSE "none",
                  !.left_hook = handled.raised,
                  !.runner_raised = bus.raised]

\* SweBenchEvaluate.__init__; the workers are outside the hook.
InitHook ==
    /\ TeamIdle("hook") /\ BatchIdle /\ EvalIdle
    /\ evaluation_interval \in Intervals
    /\ last_evaluation_time = 0
    /\ clock = 0
    /\ merge_lock = 0
    /\ tmppreds = NoFile
    /\ worker_pc = [w \in HookWorkers \cup {Main} |-> IF w = Main THEN "running" ELSE "idle"]
    /\ current_time = [w \in HookWorkers |-> 0]
    /\ opened = [w \in HookWorkers |-> 0]

\* The positions between which only worker w moves, and what it leaves alone.
HookStep(w, from, to) ==
    /\ pc = "hook"
    /\ worker_pc[w] = from
    /\ worker_pc' = [worker_pc EXCEPT ![w] = to]
    /\ UNCHANGED <<teamSide, envVars, batchVars, evalVars, evaluation_interval, clock>>

\* Time passes.
Tick ==
    /\ pc = "hook"
    /\ clock < MaxClock
    /\ clock' = clock + 1
    /\ UNCHANGED <<teamSide, envVars, batchVars, evalVars, evaluation_interval,
                   last_evaluation_time, merge_lock, tmppreds, worker_pc, current_time,
                   opened, obs>>

\* on_instance_completed is called in worker w: return at once when the interval
\* is 0, else read the clock.
HookCall(w) ==
    /\ worker_pc[Main] = "running"
    /\ HookStep(w, "idle", IF evaluation_interval = 0 THEN "idle" ELSE "throttle")
    /\ current_time' = IF evaluation_interval = 0 THEN current_time
                       ELSE [current_time EXCEPT ![w] = clock]
    /\ UNCHANGED <<last_evaluation_time, merge_lock, tmppreds, opened, obs>>

\* The elapsed-time test. The local current_time is kept while the call reads it.
ThrottleCheck(w) ==
    LET early == current_time[w] - last_evaluation_time < evaluation_interval
    IN  /\ HookStep(w, "throttle", IF early THEN "idle" ELSE "lock")
        /\ current_time' = IF early THEN [current_time EXCEPT ![w] = 0] ELSE current_time
        /\ UNCHANGED <<last_evaluation_time, merge_lock, tmppreds, opened, obs>>

\* with self.merge_lock: entry.
AcquireLock(w) ==
    /\ merge_lock = 0
    /\ HookStep(w, "lock", "merging")
    /\ merge_lock' = w
    /\ UNCHANGED <<last_evaluation_time, tmppreds, current_time, opened, obs>>

\* merge_predictions writes tmppreds.json, last_evaluation_time is set and the
\* lock is released; when merge_predictions raises the with statement releases
\* the lock and the exception leaves on_instance_completed.
Merge(w) ==
    \E merge_raises \in BOOLEAN :
        /\ HookStep(w, "merging", IF merge_raises THEN "idle" ELSE "evaluate")
        /\ tmppreds' = IF merge_raises THEN tmppreds
                       ELSE [exists |-> TRUE, version |-> tmppreds.version + 1]
        /\ last_evaluation_time' = IF merge_raises THEN last_evaluation_time
                                   ELSE current_time[w]
        /\ merge_lock' = 0
        /\ obs' = [obs EXCEPT
              !.hook = IF merge_raises THEN HookReport(@, "merge", Unguarded("merge"))
                       ELSE [@ EXCEPT !.started = [last |-> current_time[w],
                                                   prev |-> @.last]]]
        /\ current_time' = [current_time EXCEPT ![w] = 0]
        /\ UNCHANGED opened

\* run_local_evaluation opens tmppreds.json; a file that is not there is an
\* exception that is logged.
OpenPredictions(w) ==
    /\ HookStep(w, "evaluate", IF tmppreds.exists THEN "evaluating" ELSE "unlink")
    /\ opened' = [opened EXCEPT ![w] = IF tmppreds.exists THEN tmppreds.version ELSE @]
    /\ obs' = [obs EXCEPT
          !.hook = IF tmppreds.exists THEN @
                   ELSE HookReport(@, "load", RunLocalEvaluation("load"))]
    /\ UNCHANGED <<last_evaluation_time, merge_lock, tmppreds, current_time>>

\* run_local_evaluation is over: predictions loaded, evaluator run, reports
\* moved, or one of them failed.
EvaluationDone(w) ==
    \E failure \in EvalFailures :
        /\ HookStep(w, "evaluating", "unlink")
        /\ opened' = [opened EXCEPT ![w] = 0]
        /\ obs' = [obs EXCEPT !.hook = HookReport(@, failure, RunLocalEvaluation(failure))]
        /\ UNCHANGED <<last_evaluation_time, merge_lock, tmppreds, current_time>>

\* if tmp_preds_path.exists(): on_instance_completed returns when the file is
\* not there.
ExistsCheck(w) ==
    /\ HookStep(w, "unlink", IF tmppreds.exists THEN "unlinking" ELSE "idle")
    /\ UNCHANGED <<last_evaluation_time, merge_lock, tmppreds, current_time, opened, obs>>

\* tmp_preds_path.unlink(): the file is removed; FileNotFoundError leaves
\* on_instance_completed when another worker has removed it since the test.
Unlink(w) ==
    /\ HookStep(w, "unlinking", "idle")
    /\ tmppreds' = [tmppreds EXCEPT !.exists = FALSE]
    /\ obs' = [obs EXCEPT
          !.hook = IF tmppreds.exists THEN @
                   ELSE HookReport(@, "unlink", Unguarded("unlink"))]
    /\ UNCHANGED <<last_evaluation_time, merge_lock, current_time, opened>>

\* on_end, called once when every worker is done: without preds.json an error
\* is logged, else run_local_evaluation runs on it.
OnEnd ==
    \E preds_exists \in BOOLEAN, failure \in EvalFailures :
        /\ \A w \in HookWorkers : worker_pc[w] = "idle"
        /\ HookStep(Main, "running", "ended")
        /\ obs' = [obs EXCEPT
              !.hook = IF preds_exists
                       THEN [HookReport(@, failure, RunLocalEvaluation(failure))
                                EXCEPT !.on_end = "evaluated"]
                       ELSE [@ EXCEPT !.on_end = "no_predictions"]]
        /\ UNCHANGED <<last_evaluation_time, merge_lock, tmppreds, current_time, opened>>

NextHook ==
    \/ Tick
    \/ \E w \in HookWorkers : HookCall(w)
    \/ \E w \in HookWorkers : ThrottleCheck(w)
    \/ \E w \in HookWorkers : AcquireLock(w)
    \/ \E w \in HookWorkers : Merge(w)
    \/ \E w \in HookWorkers : OpenPredictions(w)
    \/ \E w \in HookWorkers : EvaluationDone(w)
    \/ \E w \in HookWorkers : ExistsCheck(w)
    \/ \E w \in HookWorkers : Unlink(w)
    \/ OnEnd

SpecHook == InitHook /\ [][NextHook]_vars

\* ------------------------------------------------------------------ claims

Uniform(m) == \A a \in Agents : agent_max_consecutive_turns[a] = m

Finished == pc \in {"ri_returned", "ri_raised"}

\* C1 as claimed: with a uniform max_turns M and no handoff, after K*N*M calls of
\* Team.step every agent has acted in exactly K*M of them.
C1_RotationFairness_AsClaimed ==
    \A m \in TurnLimits :
        (Uniform(m) /\ ~obs.any_handoff /\ step_pc = "idle" /\ obs.calls % (N * m) = 0)
            => \A a \in Agents : obs.acted[a] * N = obs.calls

\* C1 (amended): with a uniform max_turns M >= 1, no handoff and no reported
\* retries, after K*N*M calls of Team.step every agent has acted in exactly K*M.
C1_RotationFairness ==
    \A m \in TurnLimits :
        (Uniform(m) /\ ~obs.any_handoff /\ ~obs.any_retry /\ step_pc = "idle"
            /\ obs.calls % (N * m) = 0)
            => \A a \in Agents : obs.acted[a] * N = obs.calls

C1_Witness ==
    /\ Uniform(2) /\ ~obs.any_handoff /\ ~obs.any_retry /\ step_pc = "idle"
    /\ obs.calls = 2 * N
    /\ \A a \in Agents : obs.acted[a] = 2

\* C2 as claimed: the Team.step that follows a non-terminal step of agent i in which
\* a handoff was detected is performed by agent (i + 1) mod N.
C2_HandoffPriority_AsClaimed ==
    \A i \in Agents :
        (step_pc = "in_agent_step" /\ obs.after_handoff_of = {i})
            => acting = (i + 1) % N

\* C3 as claimed: Team.run takes no step after a done step, and once its steps are
\* over (the last one having returned) that step was done, on_run_done has fired
\* and the AgentRunResult has been returned.
C3_RunStopsAtFirstDone_AsClaimed ==
    /\ pc = "run_step" => ~obs.done_seen
    /\ (pc \in {"ri_finally", "ri_returned", "ri_raised"} /\ obs.last_outcome = "returned")
          => (obs.last_done /\ obs.on_run_done /\ obs.result_returned /\ exc = "none")

\* C4 as claimed: a Team.step that returns hands its caller the StepOutput of the
\* acting agent's step.
C4_StepReturnsAgentOutput_AsClaimed ==
    obs.last_outcome = "returned" => step_result = obs.last_output

C9_TrajectoryAppendOnly_AsClaimed ==
    step_pc = "idle" => Len(trajectory) = obs.agent_returns

\* C10: step_count >= len(trajectory); step_count is the number of Team.step calls
\* plus the retries reported, and the trajectory has at most one entry per call.
C10_StepCountCoversTrajectory ==
    /\ team_step_count >= Len(trajectory)
    /\ team_step_count = obs.calls + obs.retries_total
    /\ Len(trajectory) <= obs.calls

C10_Witness ==
    /\ step_pc = "idle"
    /\ obs.retries_total > 0
    /\ Len(trajectory) >= 2
    /\ team_step_count > Len(trajectory)

\* --------------------------------------------------- claims on propagation

\* The last Team.step has run its propagation loop and returned.
StepReturned == step_pc = "idle" /\ obs.last_outcome = "returned"

\* The entries that the last Team.step appended to the history of agent a after
\* the acting agent's own step was over.
Received(a) == SubSeq(history[a], obs.len_before[a] + 1, Len(history[a]))

Peers(a) == Agents \ {a}

\* The last step went through tool-result-only sharing.
ToolResultMode ==
    /\ StepReturned /\ obs.handoff = "no"
    /\ share_only_tool_results[acting] /\ ~not_using_tools[acting]

\* The output of the broadcast view of the last step.
AttributedOutput == <<"[", Name(acting), "]: ">> \o obs.agent_step.thought

\* C11: propagation writes only into the histories of agents other than the acting
\* agent: no history holds a propagated entry whose source is its owner, and the
\* acting agent's history gains nothing from the propagation of its own step.
C11_BroadcastExclusion ==
    /\ \A a \in Agents : \A i \in 1 .. Len(history[a]) :
          history[a][i].via = "propagated" => history[a][i].src # a
    /\ StepReturned => Received(acting) = <<>>

C11_Witness ==
    /\ ToolResultMode
    /\ Received(acting) = <<>>
    /\ \A p \in Peers(acting) : Len(Received(p)) = 2

\* C12: propagation leaves the source alone: after Team.step the source's history
\* ends with the entry of its own step, the StepOutput the agent returned is
\* unchanged, and the team trajectory ends with the source's own trajectory
\* entry; the rewritten output is on what the peers received only.
C12_SourceImmutability ==
    StepReturned =>
        /\ Len(history[acting]) = obs.len_before[acting]
        /\ history[acting][Len(history[acting])]
              = StepHistoryItem("own", acting, obs.agent_step)
        /\ step_output = obs.agent_step
        /\ trajectory[Len(trajectory)]
              = agent_trajectory[acting][Len(agent_trajectory[acting])]

C12_Witness ==
    /\ StepReturned
    /\ obs.handoff = "yes"
    /\ step_output.output = <<"o">>
    /\ \A p \in Peers(acting) :
          /\ Len(Received(p)) = 1
          /\ Received(p)[1].content.body = AttributedOutput

\* C13 as claimed: when the source agent has not_using_tools = true, no entry that
\* the propagation of its step appends to a peer's history has non-empty
\* tool_calls or tool_call_ids.
C13_NoToolAgentConstraint_AsClaimed ==
    (StepReturned /\ not_using_tools[acting]) =>
        \A p \in Peers(acting) : \A i \in 1 .. Len(Received(p)) :
            /\ Received(p)[i].tool_calls = <<>>
            /\ Received(p)[i].tool_call_ids = <<>>

\* C14: in tool-result-only sharing an observation longer than
\* max_observation_length goes out under the truncated template, cut to its first
\* max_observation_length characters, with elided_chars the number cut off; any
\* other observation goes out whole under the next-step template with
\* elided_chars 0. This holds with and without tool calls on the step.
C14_ObservationTruncation ==
    (ToolResultMode /\ ~IsBlank(obs.agent_step.observation)) =>
        \A p \in Peers(acting) :
            LET got == Received(p)
                c == got[Len(got)].content
                o == obs.agent_step.observation
            IN  /\ got # <<>>
                /\ IF Len(o) > max_observation_length
                   THEN /\ c.template = "next_step_truncated_observation_template"
                        /\ Len(c.body) = max_observation_length
                        /\ \A i \in 1 .. max_observation_length : c.body[i] = o[i]
                        /\ c.elided_chars = Len(o) - max_observation_length
                   ELSE /\ c.template = "next_step_template"
                        /\ c.body = o
                        /\ c.elided_chars = 0

C14_Witness ==
    /\ ToolResultMode
    /\ Len(obs.agent_step.observation) = max_observation_length + 1
    /\ obs.agent_step.tool_calls = <<>>
    /\ \A p \in Peers(acting) :
          /\ Len(Received(p)) = 1
          /\ Received(p)[1].content.elided_chars = 1
          /\ Len(Received(p)[1].content.body) = max_observation_length

\* An entry is the thought-only message of the last step.
IsThoughtOnly(item) ==
    /\ item.role = "assistant"
    /\ item.content = Content(<<>>, "", obs.agent_step.thought, 0)
    /\ item.action = <<>>
    /\ item.agent = Name(acting)
    /\ item.message_type = "non_tool_thought"
    /\ item.tool_calls = <<>>
    /\ item.tool_call_ids = <<>>

\* C15 as claimed: whenever the source agent has not_using_tools = true and the
\* step is not a handoff, every peer's history gains exactly one entry, the
\* thought-only message, whatever share_only_tool_results is.
C15_ThoughtOnlyShare_AsClaimed ==
    (StepReturned /\ obs.handoff = "no" /\ not_using_tools[acting]) =>
        \A p \in Peers(acting) :
            Len(Received(p)) = 1 /\ IsThoughtOnly(Received(p)[1])

\* C15 (amended): whenever the source agent has not_using_tools = true and the
\* step is not a handoff, every peer's history gains exactly one entry, the
\* thought-only message, if share_only_tool_results is false, and gains nothing if
\* share_only_tool_results is true.
C15_ThoughtOnlyShare ==
    (StepReturned /\ obs.handoff = "no" /\ not_using_tools[acting]) =>
        \A p \in Peers(acting) :
            IF share_only_tool_results[acting]
            THEN Received(p) = <<>>
            ELSE Len(Received(p)) = 1 /\ IsThoughtOnly(Received(p)[1])

C15_Witness ==
    /\ StepReturned /\ obs.handoff = "no"
    /\ not_using_tools[acting] /\ ~share_only_tool_results[acting]
    /\ obs.agent_step.tool_calls # <<>>
    /\ \A p \in Peers(acting) :
          Len(Received(p)) = 1 /\ IsThoughtOnly(Received(p)[1])

\* The entries received are the stand-in for the tool call followed by the
\* rendered observation, neither with structured tool calls.
IsToolResultPair(got) ==
    /\ Len(got) = 2
    /\ got[1].role = "assistant"
    /\ got[1].content = Content(<<"driver used tool: ">>, "", obs.agent_step.action, 0)
    /\ got[1].agent = Name(acting)
    /\ got[1].message_type = "action"
    /\ got[2].content.template
          \in {"next_step_template", "next_step_truncated_observation_template"}
    /\ got[2].message_type = "observation"
    /\ \A i \in 1 .. 2 : got[i].tool_calls = <<>> /\ got[i].tool_call_ids = <<>>

\* C16 as claimed: in tool-result-only sharing a step with a non-empty
\* observation, non-empty tool_calls and non-empty tool_call_ids leaves every peer
\* with exactly two new entries: the "driver used tool: " message, then the
\* rendered observation, neither with structured tool calls.
C16_ToolResultOnlyShare_AsClaimed ==
    (ToolResultMode /\ obs.agent_step.observation # <<>>
        /\ obs.agent_step.tool_calls # <<>> /\ obs.agent_step.tool_call_ids # <<>>) =>
        \A p \in Peers(acting) : IsToolResultPair(Received(p))

\* C16 (amended): in tool-result-only sharing a step whose observation has a
\* character that is not whitespace, with non-empty tool_calls and non-empty
\* tool_call_ids, leaves every peer with exactly those two new entries; a step
\* whose observation is empty or all whitespace leaves the peers with nothing.
C16_ToolResultOnlyShare ==
    (ToolResultMode /\ obs.agent_step.tool_calls # <<>>
        /\ obs.agent_step.tool_call_ids # <<>>) =>
        \A p \in Peers(acting) :
            IF IsBlank(obs.agent_step.observation)
            THEN Received(p) = <<>>
            ELSE IsToolResultPair(Received(p))

C16_Witness ==
    /\ ToolResultMode
    /\ obs.agent_step.observation = <<"x", "y">>
    /\ obs.agent_step.tool_calls = <<"bash">>
    /\ obs.agent_step.tool_call_ids # <<>>
    /\ \A p \in Peers(acting) : IsToolResultPair(Received(p))

\* C17: a step detected as a handoff is shared in full with every peer, whatever
\* the source's sharing flags: each peer gains exactly one entry, the
\* representation of the broadcast view under the source's name.
C17_HandoffSharesFullContext ==
    (StepReturned /\ obs.handoff = "yes") =>
        \A p \in Peers(acting) :
            /\ Len(Received(p)) = 1
            /\ Received(p)[1] =
                  StepHistoryItem("propagated", acting,
                                  [obs.agent_step EXCEPT !.output = AttributedOutput])
            /\ Received(p)[1].message_type \notin {"non_tool_thought", "observation"}

C17_Witness ==
    /\ StepReturned /\ obs.handoff = "yes"
    /\ share_only_tool_results[acting] /\ not_using_tools[acting]
    /\ \A p \in Peers(acting) :
          Len(Received(p)) = 1 /\ Received(p)[1].content.body = AttributedOutput

\* --------------------------------------------- claims on handoff detection

\* The last agent.step() returned a StepOutput (handoff detection has run).
Detected == step_pc = "idle" /\ obs.last_outcome \in {"returned", "detect_raised"}

\* C18: for an acting agent whose enable_handoff_tool is false, handoff detection
\* says no for every step; the agent's counter stays at the value retry accounting
\* left and the step is shared as the agent's flags say for a step without handoff.
C18_HandoffDisabled ==
    (Detected /\ ~enable_handoff_tool[acting]) =>
        /\ obs.handoff = "no"
        /\ obs.last_outcome = "returned"
        /\ agent_consecutive_turns[acting] = obs.turns_after_retries
        /\ \A p \in Peers(acting) :
              Received(p) =
                  PropagatedItems(acting, p, FALSE,
                                  [obs.agent_step EXCEPT !.output = AttributedOutput])

C18_Witness ==
    /\ Detected /\ ~enable_handoff_tool[acting]
    /\ SpecialHandoff(obs.agent_step.action)
    /\ obs.agent_step.tool_calls = <<"handoff">>
    /\ share_only_tool_results[acting] /\ ~not_using_tools[acting]
    /\ obs.handoff = "no"
    /\ agent_consecutive_turns[acting] < agent_attr_max_turns[acting]
    /\ \A p \in Peers(acting) : Len(Received(p)) = 2

\* The action is the special marker followed by JSON whose function.name is
\* handoff in any case.
IsHandoffEnvelope(action) ==
    /\ Len(action) = 2 /\ action[1] = SpecialMarker
    /\ action[2] \in {"handoff", "HANDOFF"}

\* Some entry of tool_calls is named handoff in any case.
HasHandoffCall(tool_calls) ==
    \E i \in 1 .. Len(tool_calls) : tool_calls[i] \in {"handoff", "HANDOFF"}

\* C19 as claimed: with enable_handoff_tool true, a step is detected as a handoff
\* exactly if its action is a handoff envelope or its tool_calls hold an entry
\* named handoff.
C19_HandoffDetection_AsClaimed ==
    (Detected /\ enable_handoff_tool[acting]) =>
        (obs.handoff = "yes"
            <=> (IsHandoffEnvelope(obs.agent_step.action)
                    \/ HasHandoffCall(obs.agent_step.tool_calls)))

\* C20 as claimed: when agent.step() raises during Team.run, the exception leaves
\* Team.run and, by then, the trajectory file holds the team trajectory.
C20_RunSavesBeforeRaising_AsClaimed ==
    (pc = "ri_finally" /\ obs.last_outcome = "agent_raised") =>
        /\ exc \in {"error", "cost_limit"}
        /\ disk.exists
        /\ disk.trajectory = trajectory

\* ------------------------------------------------ claims on _run_instance

\* Team.run has been called by _run_instance (its setup has run).
TeamRunCalled == traj_path

Phase(e) ==
    CASE e = "sandbox_start" -> 1
      [] e = "on_instance_start" -> 2
      [] e = "on_run_start" -> 3
      [] e \in {"agent_step", "on_step_done", "save_trajectory"} -> 4
      [] e = "on_run_done" -> 5
      [] e = "sandbox_close" -> 6
      [] e = "save_predictions" -> 7
      [] OTHER -> 8

\* Event e is in the log before position i.
Before(log, e, i) == \E j \in 1 .. (i - 1) : log[j] = e

RotatedAfterHandoffOf(a) ==
    /\ obs.after_handoff_of = {a}
    /\ acting = (a + 1) % N
    /\ current_agent_idx = acting

\* C28 as claimed: once a handoff of agent a has made the scheduler rotate to the
\* next agent, a's consecutive_turns no longer holds the maxed-out value max_turns[a].
C28_HandoffCounterReset_AsClaimed ==
    \A a \in Agents :
        RotatedAfterHandoffOf(a) =>
            agent_consecutive_turns[a] # agent_max_consecutive_turns[a]

\* C28 (amended): once a handoff of agent a has made the scheduler rotate to the
\* next agent, that agent starts its step with consecutive_turns 1 and a's
\* consecutive_turns still holds the value the handoff wrote, which is at least
\* max_turns[a]; the rotation resets the counter of the agent it rotates to only.
C28_HandoffCounterReset ==
    \A a \in Agents :
        RotatedAfterHandoffOf(a) =>
            /\ agent_consecutive_turns[a] = HandoffTurns(a)
            /\ agent_consecutive_turns[a] >= agent_max_consecutive_turns[a]
            /\ step_pc = "in_agent_step" => agent_consecutive_turns[acting] = 1

C28_Witness ==
    /\ RotatedAfterHandoffOf(0)
    /\ step_pc = "in_agent_step"
    /\ obs.acted[0] = 2 /\ obs.acted[1] = 1
    /\ agent_consecutive_turns[0] = agent_max_consecutive_turns[0]
    /\ agent_consecutive_turns[1] = 1

\* Team.step has just called _get_next_agent (this step of the model is StepBegin).
Scheduled == step_pc = "idle" /\ step_pc' = "in_agent_step"

\* C29: _get_next_agent on a current agent whose counter t is 0 or less than its
\* max_turns returns the current agent, adds exactly 1 to its counter and changes
\* neither current_idx nor another counter; otherwise it moves current_idx one
\* position on modulo N, sets the counter of the agent there to 1, returns that
\* agent and changes no other counter. Either way current_idx stays in 0 .. N-1.
C29_NextAgentFrame ==
    [][Scheduled =>
        LET cur == current_agent_idx
            t == agent_consecutive_turns[cur]
        IN  /\ current_agent_idx' \in 0 .. (N - 1)
            /\ acting' = current_agent_idx'
            /\ IF t = 0 \/ t < agent_max_consecutive_turns[cur]
               THEN /\ current_agent_idx' = cur
                    /\ agent_consecutive_turns'[cur] = t + 1
                    /\ \A a \in Agents \ {cur} :
                          agent_consecutive_turns'[a] = agent_consecutive_turns[a]
               ELSE /\ current_agent_idx' = (cur + 1) % N
                    /\ agent_consecutive_turns'[current_agent_idx'] = 1
                    /\ \A a \in Agents \ {current_agent_idx'} :
                          agent_consecutive_turns'[a] = agent_consecutive_turns[a]]_vars

C29_Witness ==
    /\ step_pc = "in_agent_step"
    /\ ~obs.any_handoff
    /\ current_agent_idx = 0 /\ obs.acted[2] >= 1 /\ obs.acted[0] >= 2
    /\ agent_consecutive_turns[0] = 1
    /\ agent_consecutive_turns[2] >= agent_max_consecutive_turns[2]

\* agent.step() has just returned to Team.step (this step of the model is StepEnd
\* and the agent did not raise).
AgentReturned ==
    step_pc = "in_agent_step" /\ step_pc' = "idle" /\ obs'.last_outcome # "agent_raised"

\* C30: when agent.step() returns reporting k retries, retry accounting adds
\* min(k, 1) to the acting agent's consecutive_turns (1 when k >= 1, 0 when k = 0)
\* and k to the team step count and touches no other agent's counter; unless the
\* step is then detected as a handoff, that is the counter Team.step leaves.
C30_RetryAccounting ==
    [][AgentReturned =>
        LET k == obs'.retries_total - obs.retries_total
            t == agent_consecutive_turns[acting]
        IN  /\ obs'.turns_after_retries = t + Min(k, 1)
            /\ k >= 1 => obs'.turns_after_retries = t + 1
            /\ k = 0 => obs'.turns_after_retries = t
            /\ obs'.handoff # "yes" =>
                  agent_consecutive_turns'[acting] = obs'.turns_after_retries
            /\ \A a \in Agents \ {acting} :
                  agent_consecutive_turns'[a] = agent_consecutive_turns[a]
            /\ team_step_count' = team_step_count + k]_vars

C30_Witness ==
    /\ step_pc = "idle" /\ obs.last_outcome = "returned" /\ obs.handoff = "no"
    /\ obs.calls = 1 /\ obs.retries_total = 2
    /\ agent_consecutive_turns[acting] = 2
    /\ team_step_count = 3

\* ---------------------------------------------- claims on the deployment

\* The last call on the deployment was a stop() that followed a finished stop()
\* with no start() in between, or that no start() preceded at all.
RepeatedStop ==
    /\ obs.deploy.last_call = "stop"
    /\ (obs.deploy.prev_call = "stop" /\ ~obs.deploy.prev_raised) \/ obs.deploy.starts = 0

SomeFileInvalid == \E f \in DOMAIN agent_config_paths : agent_config_paths[f] # "valid"

\* C23 as claimed: when some agent configuration file is invalid, the construction
\* of the batch runner fails and no instance is run.
C23_InvalidConfigFatal_AsClaimed ==
    (SomeFileInvalid /\ runner_pc # "new") =>
        /\ runner_pc = "failed"
        /\ \A i \in InstanceIds : instances[i].state = "pending"

\* Instances i and j have both been started.
BothStarted(i, j) ==
    i # j /\ instances[i].state # "pending" /\ instances[j].state # "pending"

\* The runner's base agent configs are what was loaded from the files.
BaseConfigsUnchanged ==
    LET loaded == LoadAgentConfigs(agent_config_paths)
    IN  runner_pc = "ready" =>
            /\ Len(agent_configs) = Len(loaded)
            /\ \A k \in DOMAIN agent_configs : config_store[agent_configs[k]] = loaded[k]

\* C27 as claimed: after any number of _run_instance calls the runner's base agent
\* configs are unchanged and no Team, agent or agent config object is held by two
\* instances.
C27_DeepClones_AsClaimed ==
    /\ BaseConfigsUnchanged
    /\ \A i, j \in InstanceIds : BothStarted(i, j) => Objects(i) \cap Objects(j) = {}

\* The objects the Team of a started instance is built from: the Team, its agents
\* and its agent configs.
TeamObjects(i) == Objects(i) \ {instances[i].replay_agent}

\* C27 (amended): after any number of _run_instance calls, sequential or
\* concurrent, the runner's base agent configs are unchanged; the Team of every
\* instance, its agents and its agent configs are objects of that instance alone,
\* the agent configs being copies of the base configs and none of them a base
\* config; the one object that instances share is the runner's first base agent
\* config, which the replay config of every instance refers to.
C27_DeepClones ==
    /\ BaseConfigsUnchanged
    /\ \A i \in InstanceIds : instances[i].state # "pending" =>
          /\ TeamObjects(i) \cap {agent_configs[k] : k \in DOMAIN agent_configs} = {}
          /\ \A k \in DOMAIN agent_configs :
                config_store[instances[i].agent_configs[k]] = config_store[agent_configs[k]]
          /\ instances[i].replay_agent = agent_configs[1]
    /\ \A i, j \in InstanceIds : BothStarted(i, j) =>
          /\ TeamObjects(i) \cap TeamObjects(j) = {}
          /\ Objects(i) \cap Objects(j) = {agent_configs[1]}

C27_Witness ==
    /\ Len(agent_configs) = NumConfigFiles
    /\ instances[1].state = "running" /\ instances[2].state = "running"
    /\ instances[3].state = "done"
    /\ \A i, j \in InstanceIds : i # j => TeamObjects(i) \cap TeamObjects(j) = {}

\* -------------------------------------- claims on the evaluation summary

\* The categories of the summary.
CategorySets ==
    {"empty_patch_instances", "error_instances", "resolved_instances",
     "unresolved_instances"}

\* A report as the evaluator writes it: a patch that is None does not exist, and
\* only a patch that exists is applied.
Consistent(r) ==
    /\ r.patch_is_None => ~r.patch_exists
    /\ r.patch_successfully_applied => r.patch_exists

\* A report that tells of a patch: the report is not one of an empty patch.
HasPatch(r) == ~r.patch_is_None /\ r.patch_exists

\* C25: in the summary every instance with a report is in submitted and in exactly
\* one of empty_patch, error, resolved, unresolved: in empty_patch iff
\* patch_is_None or patch_exists is false; otherwise in error iff the patch was
\* not applied, in resolved iff applied and resolved, in unresolved iff applied
\* and not resolved (for a consistent report these are the conditions without
\* the "otherwise"); completed is the union of resolved and unresolved and every
\* count is the size of its set.
C25_ResultCategories ==
    summary.written =>
        /\ \A i \in EvalInstances : IsReport(reports[i]) =>
              LET r == reports[i]
                  in_empty == i \in summary.empty_patch_instances
                  in_error == i \in summary.error_instances
                  in_resolved == i \in summary.resolved_instances
                  in_unresolved == i \in summary.unresolved_instances
              IN  /\ i \in summary.submitted_instances
                  /\ Cardinality({c \in CategorySets : i \in summary[c]}) = 1
                  /\ in_empty <=> (r.patch_is_None \/ ~r.patch_exists)
                  /\ in_error <=> (HasPatch(r) /\ ~r.patch_successfully_applied)
                  /\ in_resolved <=>
                        (HasPatch(r) /\ r.patch_successfully_applied /\ r.resolved)
                  /\ in_unresolved <=>
                        (HasPatch(r) /\ r.patch_successfully_applied /\ ~r.resolved)
                  /\ Consistent(r) =>
                        /\ in_error <=> (r.patch_exists /\ ~r.patch_successfully_applied)
                        /\ in_resolved <=> (r.patch_successfully_applied /\ r.resolved)
                        /\ in_unresolved <=> (r.patch_successfully_applied /\ ~r.resolved)
        /\ summary.submitted_instances = {i \in EvalInstances : IsReport(reports[i])}
        /\ summary.completed_instances =
              summary.resolved_instances \cup summary.unresolved_instances
        /\ \A c \in CategorySets \cup {"submitted_instances", "completed_instances"} :
              summary.metrics[c] = Cardinality(summary[c])

C25_Witness ==
    /\ summary.written
    /\ summary.metrics.submitted_instances = NumEvalInstances
    /\ summary.metrics.resolved_instances = 1
    /\ summary.metrics.empty_patch_instances = 1
    /\ summary.metrics.completed_instances = 1
    /\ \E i \in EvalInstances : IsReport(reports[i]) /\ reports[i].patch_is_None

\* --------------------------------------- claims on continuous evaluation

\* The evaluation of worker w is in progress on the file it opened.
Evaluating(w) == worker_pc[w] = "evaluating"

\* C26 as claimed: two merges never run at the same time, and the file an
\* evaluation is reading is neither rewritten nor deleted by another worker while
\* that evaluation is in progress.
C26_MergeAndSnapshot_AsClaimed ==
    /\ \A v, w \in HookWorkers :
          (worker_pc[v] = "merging" /\ worker_pc[w] = "merging") => v = w
    /\ \A w \in HookWorkers :
          Evaluating(w) => (tmppreds.exists /\ tmppreds.version = opened[w])

\* ------------------------------------------- claims on the retry quota

\* C31 as claimed: the max_requeries the acting agent runs its step with is
\* min(configured max_requeries, remaining turns), at most 1 on the agent's last
\* allowed turn (no turn remains), and never more than the agent's configured
\* max_requeries.
C31_EffectiveRequeries_AsClaimed ==
    step_pc = "in_agent_step" =>
        LET remaining == GetRemainingTurns(agent_consecutive_turns, acting)
            configured == configured_requeries[acting]
        IN  /\ remaining >= 1 => max_requeries[acting] = Min(configured, remaining)
            /\ remaining < 1 => max_requeries[acting] <= 1
            /\ max_requeries[acting] <= configured

\* The Team.step that is over was left by an exception.
StepRaised ==
    /\ step_pc = "idle"
    /\ obs.last_outcome
          \in {"agent_raised", "detect_raised", "propagation_raised"}

\* C32: between Team.step calls every agent's max_requeries is the value it was
\* configured with, which is the value it had before the step that is over,
\* whether that step returned or agent.step(), handoff detection or propagation
\* raised; while a step runs, the max_requeries of every agent other
\* than the acting one is untouched.
C32_MaxRequeriesRestored ==
    /\ step_pc = "idle" => max_requeries = configured_requeries
    /\ step_pc = "in_agent_step" =>
          /\ original_max_requeries = configured_requeries[acting]
          /\ \A a \in Agents \ {acting} : max_requeries[a] = configured_requeries[a]

C32_Witness ==
    /\ StepRaised
    /\ obs.last_outcome = "propagation_raised"
    /\ obs.remaining = 0
    /\ DynamicMaxRequeries(configured_requeries[acting], obs.remaining)
          # configured_requeries[acting]
    /\ max_requeries[acting] = configured_requeries[acting]

\* C33 as claimed: no exception leaves handoff detection, and a step with no
\* well-formed handoff pattern (its envelope, if any, does not parse to a handoff
\* and no tool_calls entry is a call named handoff) is detected as no handoff.
C33_DetectionNeverFails_AsClaimed ==
    /\ obs.last_outcome # "detect_raised"
    /\ (Detected /\ ~IsHandoffEnvelope(obs.agent_step.action)
           /\ ~HasHandoffCall(obs.agent_step.tool_calls))
          => obs.handoff = "no"

\* ------------------------------------ claims on stopping the deployment

\* The last stop() (called directly or by a start() that timed out) found a
\* process handle and went into the block that signals the process.
Escalated == ~obs.deploy.in_timeout /\ obs.deploy.escalation # NoEscalation

\* C34: a stop() that finds a process handle sends SIGTERM and waits at most 10 s;
\* it sends SIGKILL only if the process has not exited by then, at most 3 times,
\* waiting at most 5 s after each and stopping at the first SIGKILL after which
\* the process has exited; after 3 SIGKILLs without an exit it gives up. The
\* whole takes at most 10 + 3 * 5 s of waiting. On each of these paths, and when
\* signalling raises, stop() does not raise and leaves the deployment with no
\* process handle and no container name.
C34_StopEscalation ==
    Escalated =>
        LET e == obs.deploy.escalation
            needed == e.response.kills_needed
            kills == Len(e.signals) - 1
        IN  /\ obs.deploy.last_call = "stop" => ~obs.deploy.raised
            /\ container_process = "none" /\ ~container_name /\ ~runtime
            /\ e.max_wait <= TerminateWait + KillAttempts * KillWait
            /\ e.caught => e.signals = <<>>
            /\ ~e.caught =>
                  /\ e.signals[1] = "SIGTERM"
                  /\ \A i \in 2 .. Len(e.signals) : e.signals[i] = "SIGKILL"
                  /\ kills = Min(needed, KillAttempts)
                  /\ e.max_wait = TerminateWait + kills * KillWait
                  /\ e.exited <=> needed <= KillAttempts
                  /\ e.gave_up <=> (kills = KillAttempts /\ ~e.exited)

C34_Witness ==
    /\ Escalated
    /\ obs.deploy.last_call = "stop" /\ ~obs.deploy.raised
    /\ obs.deploy.escalation.gave_up
    /\ obs.deploy.escalation.signals = <<"SIGTERM", "SIGKILL", "SIGKILL", "SIGKILL">>
    /\ obs.deploy.orphans = 1
    /\ container_process = "none" /\ ~container_name

\* The last call was a start() whose runtime did not come alive in time and that
\* has raised.
StartTimedOut == obs.deploy.timed_out

\* C35 as claimed: when start() has raised because the runtime did not come alive
\* in time, the runtime has been closed, the container process terminated and its
\* handle cleared, and no container process is left running.
C35_TimeoutStopsDeployment_AsClaimed ==
    StartTimedOut =>
        /\ obs.deploy.closed_runtime = 1 /\ ~runtime
        /\ container_process = "none"
        /\ ~obs.deploy.orphaned

\* The last call was a stop() and it returned without raising.
StopOver == obs.deploy.last_call = "stop" /\ ~obs.deploy.raised

\* C39 as claimed: whatever start() and stop() calls came before, failed ones
\* included, after a stop() the deployment has no runtime, no process handle and
\* no container name, and the container process does not run; and a container
\* name is never set without a process handle.  Only a stop() that returned is
\* taken as finished.
C39_DeploymentReset_AsClaimed ==
    /\ StopOver =>
          /\ ~runtime /\ container_process = "none" /\ ~container_name
          /\ ~obs.deploy.orphaned
    /\ (~obs.deploy.in_timeout /\ container_name) => container_process # "none"

\* ------------------------------------ claims on failures in the evaluation hook

C40_ThrottleAtomic_AsClaimed ==
    LET st == obs.hook.started
    IN  /\ st.prev # -1 => st.last - st.prev >= evaluation_interval
        /\ evaluation_interval = 0 =>
              /\ st = NoneStarted /\ tmppreds = NoFile
              /\ \A w \in HookWorkers : worker_pc[w] = "idle"

\* ------------------------------------------------ claims on starvation

\* C37 as claimed: no agent performs more than its max_consecutive_turns steps in
\* a row; stated of the agent that has performed every step so far.
C37_NoStarvation_AsClaimed ==
    \A a \in Agents :
        obs.acted[a] = obs.calls => obs.calls <= agent_max_consecutive_turns[a]

\* ------------------------------------------------ claims on a failed step

====
